---- MODULE Spec2Model ----
(***************************************************************************)
(* Real-time audio / ASR / dialogue subsystem of the interview assistant.  *)
(*                                                                         *)
(* The module models                                                       *)
(*   - the audio gateway (ws/ws_audio.py): the WebSocket handler, its      *)
(*     receive loop, the consumer task audio_processor and the shutdown    *)
(*     sequence of the handler's finally block;                            *)
(*   - the session record (core/state.py): audio_q, seq, stop, history;    *)
(*   - the VAD segmenter / ASR pipeline (asr/pipeline.py): the voiced /    *)
(*     unvoiced state machine, partial and final recognition, duplicate    *)
(*     suppression.                                                        *)
(*                                                                         *)
(* Time is counted in ticks of 50 ms.  A specification either models the   *)
(* wall clock (timed = TRUE: every comparison of the code against          *)
(* time.time() is computed from the variable now) or leaves it open        *)
(* (timed = FALSE: the outcome of each such comparison is an input).       *)
(***************************************************************************)
EXTENDS Integers, Sequences, FiniteSets, TLC

(***************************************************************************)
(* Bounds of the model.                                                    *)
(***************************************************************************)
\* capacity of audio_q: settings.WS_AUDIO_QUEUE_MAX_SIZE, a configured value
WS_AUDIO_QUEUE_MAX_SIZE == 2
\* number of binary frames the clients send in one behaviour
MaxFrames == 3
\* number of put coroutines the capture thread may have scheduled at once
MaxPutters == 1

\* the connections of the model, both to the same /ws/audio/{sid}/{source}
Conns == {1, 2}
\* a record created by connection c is record c
NoRec == 0

(***************************************************************************)
(* Program constants (ticks of 50 ms).                                     *)
(***************************************************************************)
VAD_PRE_SPEECH_PADDING == 3
VAD_END_SILENCE == 24
VAD_MAX_SEGMENT == 200
PARTIAL_INTERVAL == 8
duplicate_threshold == 40
max_consecutive_drops == 5
\* a frame of 3200 samples at 16 kHz
FrameDur == 4
\* time.time() when the server starts: far from 0, the initial value of
\* last_partial_time and last_final_time
T0 == 1000
\* speech_start = None
None == -1
WS_AUDIO_QUEUE_DROP_OLDEST == TRUE
\* settings.ASR_MIN_SENTENCE_LENGTH
ASR_MIN_SENTENCE_LENGTH == 6

VARIABLES
    timed,                \* whether this specification models the wall clock
    now,                  \* time.time()
    source,               \* the {source} path parameter: "mic" or "sys"
    sessions,             \* _sessions[session_key]: a record, or NoRec
    \* ---- SessionState, one per record
    audio_q, stop, seq, segment_buffer, speech_start, last_active,
    partial_text, chat_history,
    \* ---- handle_audio_websocket, one per connection
    hpc,                  \* position of the handler
    state,                \* the record the handler holds
    system_audio_enabled,
    wire,                 \* the last JSON message sent on the socket
    wireTick,             \* flips with every message sent on the socket
    close_code,           \* the code the server closed the socket with
    \* ---- audio_processor task, one per connection
    cpc,                  \* position of the consumer task
    cancelReq,            \* processor_task.cancel() called, not yet delivered
    consecutive_drops,
    cur,                  \* locals of the chunk / segment being processed
    \* ---- ASRPipeline, one per connection
    in_speech, speech_buffer, last_partial_time, last_final_text,
    last_final_time, last_segment_has_trailing_silence,
    \* ---- system audio capture (process-wide) and the frames sent
    capture,              \* [on, cb]: is_capturing, connection of the callback
    putters,              \* put coroutines scheduled by the callback, per record
    nextFrame,            \* id of the next frame a client sends
    shut,                 \* ghost, one per connection: see NoShut
    vad,                  \* ghost of the timed specifications: see NoVad
    appended,             \* ghost, one per record: the entries appended to
                          \* chat_history since the record was created or reset
    asr,                  \* ASR state, one per record: see NoAsr
    pass,                 \* a proactive drop pass on its own: see NoPass
    frame,                \* a binary frame and the audio taken from it
    serving,                \* the module whose handle_audio_websocket serves
                          \* the audio endpoint: "ws" or "gateway"
    sibling,              \* _sessions[session_id + "_" + the other source]:
                          \* the record of the socket open on the other
                          \* source of the same session_id, or NoRec
    stats,                \* per record: the counters of SessionState.stats,
                          \* or NoStats where they are not followed
    calls,                \* the calls of the entry points into the
                          \* chat-completion endpoint, and the permits of
                          \* _llm_semaphore
    \* ---- the answer path
    ep,                   \* the chat endpoint the LLM clients talk to
    llm,                  \* the call of an LLM client in progress
    agent,                \* AnswerAgent.generate_answer and its caller
    sse,                  \* answer_generator / event_stream of POST /api/gpt
    prompt                \* the inputs and the result of a prompt builder

recVars == <<audio_q, stop, seq, segment_buffer, speech_start, last_active,
             partial_text, chat_history>>
connVars == <<hpc, state, system_audio_enabled, wire, wireTick>>
taskVars == <<cpc, cancelReq, consecutive_drops, cur>>
pipeVars == <<in_speech, speech_buffer, last_partial_time, last_final_text,
              last_final_time, last_segment_has_trailing_silence>>
envVars == <<timed, now, source, sessions, capture, putters, nextFrame, shut,
            vad, appended, close_code, asr, pass, frame, serving, sibling, stats, calls>>
gatewayVars == <<recVars, connVars, taskVars, pipeVars, envVars>>
answerVars == <<ep, llm, agent, sse, prompt>>
vars == <<gatewayVars, answerVars>>

(***************************************************************************)
(* Texts are sequences of characters.  "." "!" "?" "," ";" stand for the   *)
(* full-width marks of the duplicate check, " " for white space.           *)
(***************************************************************************)
Punct == {".", "!", "?", ",", ";", " "}
EmptyText == << >>
\* the outcome of a recognition that ran into the timeout of wait_for
RecogTimeout == <<"#timeout">>

Min(a, b) == IF a < b THEN a ELSE b
Max(a, b) == IF a > b THEN a ELSE b

\* re.sub(r'[。！？，、\s]', '', text)
StripPunct(text) == SelectSeq(text, LAMBDA ch : ch \notin Punct)

\* a in b, for Python strings
Contains(a, b) ==
    \E i \in 0..(Len(b) - Len(a)) : SubSeq(b, i + 1, i + Len(a)) = a

\* len_ratio > 0.7, with len_ratio = min / max
LenRatioSimilar(n1, n2) == 10 * Min(n1, n2) > 7 * Max(n1, n2)

\* ASRPipeline._is_similar_text
_is_similar_text(text1, text2) ==
    IF text1 = EmptyText \/ text2 = EmptyText THEN FALSE
    ELSE IF text1 = text2 THEN TRUE
    ELSE LET clean1 == StripPunct(text1)
             clean2 == StripPunct(text2)
         IN  IF clean1 = clean2 THEN TRUE
             ELSE /\ Len(clean1) > 0
                  /\ Len(clean2) > 0
                  /\ (Contains(clean1, clean2) \/ Contains(clean2, clean1))
                  /\ LenRatioSimilar(Len(clean1), Len(clean2))

(***************************************************************************)
(* Comparisons against the wall clock.  o is the outcome when the          *)
(* specification leaves the clock open.                                    *)
(***************************************************************************)
\* (current_time - speech_start) >= max_segment
MaxSegmentReached(t, start, o) ==
    IF timed THEN t - start >= VAD_MAX_SEGMENT ELSE o

\* silence_duration >= end_silence
EndSilenceReached(t, active, o) ==
    IF timed THEN t - active >= VAD_END_SILENCE ELSE o

\* (current_time - last_partial_time) >= partial_interval
PartialDue(t, last, o) ==
    IF timed THEN t - last >= PARTIAL_INTERVAL ELSE o

\* time_since_last < duplicate_threshold
InDuplicateWindow(t, last, o) ==
    IF timed THEN t - last < duplicate_threshold ELSE o

(***************************************************************************)
(* asyncio.Queue                                                           *)
(***************************************************************************)
\* variant: a queue that takes one item more than maxsize
FullOffByOne(q) == Len(q) > WS_AUDIO_QUEUE_MAX_SIZE

\* asyncio.Queue.full()
Full(q) == Len(q) >= WS_AUDIO_QUEUE_MAX_SIZE

\* variant: the labels of the two sources exchanged
SpeakerSwapped(src) == IF src = "sys" THEN "user" ELSE "interviewer"

\* the speaker label of on_partial / on_final
Speaker(src) == IF src = "sys" THEN "interviewer" ELSE "user"

\* the JSON messages of the socket; a field a message does not carry is 0
\* or empty
NoMsg == [type |-> "none", seq |-> -1, speaker |-> "", text |-> EmptyText,
          start_time |-> 0, end_time |-> 0, timestamp |-> 0]
Msg(ty, n, tx) == [type |-> ty, seq |-> n, speaker |-> "", text |-> tx,
                   start_time |-> 0, end_time |-> 0, timestamp |-> 0]
PartialMsg(n, tx, ts) == [type |-> "partial", seq |-> n, speaker |-> "",
                          text |-> tx, start_time |-> 0, end_time |-> 0,
                          timestamp |-> ts]
FinalMsg(n, sp, tx, t0, t1, ts) == [type |-> "final", seq |-> n,
                                    speaker |-> sp, text |-> tx,
                                    start_time |-> t0, end_time |-> t1,
                                    timestamp |-> ts]
\* ghost: what happened to the segment open when the handler began to shut
\* down (open), and to the final recognitions that ended since; text: the
\* handler left its receive loop on a text frame that is no stop message
NoShut == [open |-> FALSE, final |-> FALSE, failed |-> FALSE, text |-> FALSE]
\* ghost: the frames fed so far, as a run of the form unvoiced* voiced+
\* unvoiced* (phase "pre", "speech", "post") or any other run ("mixed");
\* on, off: the times the first and the last voiced frame were taken;
\* sil: the unvoiced time since; finals: finals delivered (2: two or more);
\* ok: no final recognition has ended without a delivery
NoVad == [phase |-> "pre", on |-> 0, off |-> 0, sil |-> 0, finals |-> 0,
          ok |-> TRUE]
\* one per record: the decoder state in the dict bound to state.asr_cache,
\* by the segment it comes from ("cur": the segment begun last, "old": an
\* earlier one); the recognize calls that a timeout or a cancellation has
\* abandoned and that still run on the worker pool with that dict, by segment;
\* ghost: how the last final recognition ended, until the consumer's next
\* step.  cache and stale are kept in the timed specifications only.
NoAsr == [cache |-> {}, stale |-> [cur |-> 0, old |-> 0], outcome |-> "none"]
\* a drop pass on a queue of some capacity: the size the consumer has read
\* at the top of its loop (observed), the size now and the frames dropped
NoPass == [pc |-> "idle", capacity |-> 0, observed |-> 0, queue_size |-> 0,
           drops |-> 0]
\* a binary frame: whether the client has put the metadata header in front,
\* its bytes ("h": a byte of the header, "p": a byte of PCM), and the bytes
\* the handler takes as audio
NoFrame == [pc |-> "idle", header |-> FALSE, bytes |-> << >>, audio |-> << >>]
\* SessionState.stats of a new record, less its start_time
NewStats == [audio_chunks_received |-> 0, segments_processed |-> 0,
             transcripts_generated |-> 0, total_duration_ms |-> 0]
\* no counter is followed
NoStats == << >>
Untracked == [r \in Conns |-> NoStats]
\* settings.LLM_CONCURRENCY_LIMIT
LLM_CONCURRENCY_LIMIT == 2
\* the tasks that may call an entry point at the same time
MaxCallers == 4
Callers == 1..MaxCallers
\* no call: every task is idle and the semaphore has all its permits
NoCalls == [of |-> [t \in Callers |-> [entry |-> "none", pc |-> "idle"]],
            sem |-> LLM_CONCURRENCY_LIMIT]
NoCur == [t |-> 0, start |-> 0, end |-> 0, ret |-> "none", text |-> EmptyText]

Send(c, m) ==
    /\ wire' = [wire EXCEPT ![c] = m]
    /\ wireTick' = [wireTick EXCEPT ![c] = 1 - @]

(***************************************************************************)
(* The answer path at rest: no endpoint chosen, no call, no request.       *)
(***************************************************************************)
\* a request: stream; tok, the token parameters it carries, of max_tokens
\* and max_completion_tokens; limit, the value they carry; temp, it carries
\* a temperature
NoPayload == [stream |-> FALSE, tok |-> {}, limit |-> 0, temp |-> FALSE]
\* ep: kind "mock" (rejects the parameters in rejects, else answers with
\* deltas) or "any" (answers each request as it likes)
NoEp == [kind |-> "none", rejects |-> {}, deltas |-> << >>]
\* llm: client "chat" or "service"; pc, the request the call is about to
\* send; payload, its parameters; mct, use_max_completion_tokens of chat;
\* requests, the requests sent; out, the chunks yielded; err, the message
\* of the error remembered.  Ghosts: rejected, the endpoint has rejected a
\* request; fb, a non-stream response with content was received after the
\* fallback from streaming; failed, the call ended on an HTTP error or an
\* exception; neterr, a request met a network error
NoLlm == [client |-> "none", pc |-> "idle", payload |-> NoPayload,
          mct |-> FALSE, requests |-> 0, out |-> << >>, err |-> {},
          rejected |-> FALSE, fb |-> FALSE, failed |-> FALSE,
          neterr |-> FALSE]
\* no caller of the agent yet.  question: the text of the request in
\* progress; called: stream_generate has been called for it; seen: the chunks
\* of the generator taken so far; before: the ghost appended when
\* generate_answer began; frames: the frames sent for the request; handled:
\* the handler is done with the request; asked: the requests received;
\* raised: ghost, the callback has raised during the request; state: the
\* record the endpoint has looked up
NoAgent == [pc |-> "idle", caller |-> "none", state |-> NoRec,
            question |-> << >>,
            called |-> FALSE, seen |-> 0, full_answer |-> << >>,
            ret |-> << >>, before |-> << >>, frames |-> << >>,
            open |-> TRUE, handled |-> FALSE, asked |-> 0,
            raised |-> FALSE]
\* no request yet.  queue: the asyncio.Queue of answer_generator; task: the
\* generate_task; produced: ghost, the chunks the callback was called with;
\* events: the events sent on the response
NoSse == [pc |-> "idle", queue |-> << >>, task |-> "none",
          produced |-> << >>, events |-> << >>]
\* no prompt built yet.  builder: who built it; the inputs; lines: the
\* prompt, line by line; block: the lines of its dialogue block
NoPrompt == [pc |-> "idle", builder |-> "none", question |-> << >>,
             cv |-> << >>, jd |-> << >>, history |-> << >>,
             lines |-> << >>, block |-> << >>]

InitAnswer ==
    /\ ep = NoEp
    /\ llm = NoLlm
    /\ agent = NoAgent
    /\ sse = NoSse
    /\ prompt = NoPrompt

(***************************************************************************)
(* The {source} path parameter of /ws/audio/{session_id}/{source}.         *)
(***************************************************************************)
\* the values a client puts into the path: the two sources and another one
Sources == {"mic", "sys", "tv"}

\* variant: the endpoint takes every source
AnySourceValid(src) == TRUE

\* source in ["mic", "sys"], the test of the endpoint ws_audio
ValidSource(src) == src \in {"mic", "sys"}

\* the close codes of RFC 6455 the server uses
POLICY_VIOLATION == 1008
NORMAL_CLOSURE == 1000

(***************************************************************************)
(* Init: the server is up, no connection has been accepted.                *)
(***************************************************************************)
InitCommon ==
    /\ calls = NoCalls
    /\ sibling = NoRec
    /\ now = T0
    /\ appended = [r \in Conns |-> << >>]
    /\ source \in Sources
    /\ InitAnswer
    /\ close_code = [c \in Conns |-> None]
    /\ sessions = NoRec
    /\ audio_q = [r \in Conns |-> << >>]
    /\ stop = [r \in Conns |-> FALSE]
    /\ seq = [r \in Conns |-> 0]
    /\ segment_buffer = [r \in Conns |-> << >>]
    /\ speech_start = [r \in Conns |-> None]
    /\ last_active = [r \in Conns |-> T0]
    /\ partial_text = [r \in Conns |-> EmptyText]
    /\ chat_history = [r \in Conns |-> << >>]
    /\ hpc = [c \in Conns |-> "idle"]
    /\ state = [c \in Conns |-> NoRec]
    /\ system_audio_enabled = [c \in Conns |-> FALSE]
    /\ wire = [c \in Conns |-> NoMsg]
    /\ wireTick = [c \in Conns |-> 0]
    /\ cpc = [c \in Conns |-> "none"]
    /\ cancelReq = [c \in Conns |-> FALSE]
    /\ consecutive_drops = [c \in Conns |-> 0]
    /\ cur = [c \in Conns |-> NoCur]
    /\ in_speech = [c \in Conns |-> FALSE]
    /\ speech_buffer = [c \in Conns |-> << >>]
    /\ last_partial_time = [c \in Conns |-> 0]
    /\ last_final_text = [c \in Conns |-> EmptyText]
    /\ last_final_time = [c \in Conns |-> 0]
    /\ last_segment_has_trailing_silence = [c \in Conns |-> FALSE]
    /\ capture = [on |-> FALSE, cb |-> 0]
    /\ putters = [r \in Conns |-> << >>]
    /\ nextFrame = 1
    /\ shut = [c \in Conns |-> NoShut]
    /\ vad = NoVad
    /\ asr = [r \in Conns |-> NoAsr]
    /\ pass = NoPass
    /\ frame = NoFrame

Init == timed = FALSE /\ serving = "ws" /\ stats = Untracked /\ InitCommon

(***************************************************************************)
(* SessionState                                                            *)
(***************************************************************************)
\* agent_settings.CHAT_HISTORY_MAX, a configured value
CHAT_HISTORY_MAX == 3

RECURSIVE LStrip(_)
LStrip(text) ==
    IF text # << >> /\ Head(text) = " " THEN LStrip(Tail(text)) ELSE text

RECURSIVE RStrip(_)
RStrip(text) ==
    IF text # << >> /\ text[Len(text)] = " "
    THEN RStrip(SubSeq(text, 1, Len(text) - 1)) ELSE text

\* str.strip()
Strip(text) == RStrip(LStrip(text))

\* variant: a full history refuses the new entry
DequeKeepOldest(h, entry) ==
    IF Len(h) >= CHAT_HISTORY_MAX THEN h ELSE Append(h, entry)

\* deque(maxlen=max_history).append(entry)
DequeAppend(h, entry) ==
    IF Len(h) >= CHAT_HISTORY_MAX THEN Append(Tail(h), entry)
    ELSE Append(h, entry)

\* SessionState.add_to_history
add_to_history(h, content, speaker) ==
    IF content = EmptyText \/ Strip(content) = EmptyText THEN h
    ELSE DequeAppend(h, [content |-> Strip(content), speaker |-> speaker])

\* the ghost appended after add_to_history(content, speaker)
Logged(log, content, speaker) ==
    IF Strip(content) = EmptyText THEN log
    ELSE Append(log, [content |-> Strip(content), speaker |-> speaker])

\* SessionState.next_seq
next_seq(n) == n + 1

(***************************************************************************)
(* audio_processor: the proactive drop at the top of the loop              *)
(***************************************************************************)
\* the tests and the loop of the pass on a queue of any capacity
\* queue_size > capacity * 0.8
OverHighWater(queue_size, capacity) == 10 * queue_size > 8 * capacity

\* queue_size > capacity * 0.5
OverLowWater(queue_size, capacity) == 2 * queue_size > capacity

\* while queue_size > capacity * 0.5 and drops < 3: get_nowait(), which
\* raises QueueEmpty on an empty queue; the number of frames dropped
RECURSIVE DropWhile(_, _, _)
DropWhile(queue_size, drops, capacity) ==
    IF OverLowWater(queue_size, capacity) /\ drops < 3 /\ queue_size > 0
    THEN DropWhile(queue_size - 1, drops + 1, capacity)
    ELSE drops

\* queue_size > settings.WS_AUDIO_QUEUE_MAX_SIZE * 0.8
AboveHighWater(queue_size) ==
    OverHighWater(queue_size, WS_AUDIO_QUEUE_MAX_SIZE)

\* queue_size > settings.WS_AUDIO_QUEUE_MAX_SIZE * 0.5
AboveLowWater(queue_size) ==
    OverLowWater(queue_size, WS_AUDIO_QUEUE_MAX_SIZE)

\* the while loop of the drop pass: the number of frames it drops
DropLoop(queue_size, drops) ==
    DropWhile(queue_size, drops, WS_AUDIO_QUEUE_MAX_SIZE)

ProactiveDrops(q) == IF AboveHighWater(Len(q)) THEN DropLoop(Len(q), 0) ELSE 0

(***************************************************************************)
(* Continuations of the consumer task.  Each one sets the control          *)
(* variables cpc, audio_q, consecutive_drops and cur; q and cd are the     *)
(* queue and the drop counter as the step has left them.  They read the    *)
(* pipeline variables as the step has set them (primed).                   *)
(***************************************************************************)
\* ASRPipeline._process_segment, from its start to the await of the
\* recognition; ret is the caller: "voiced", "unvoiced" or "flush"
BeginSegment(c, q, cd, t, ret) ==
    LET r == state[c]
        start_time == IF speech_start'[r] # None /\ speech_start'[r] # 0
                      THEN speech_start'[r] ELSE t
    IN  /\ audio_q' = [audio_q EXCEPT ![r] = q]
        /\ consecutive_drops' = [consecutive_drops EXCEPT ![c] = cd]
        /\ cur' = [cur EXCEPT ![c] = [t |-> t, start |-> start_time, end |-> t,
                                      ret |-> ret, text |-> EmptyText]]
        /\ cpc' = [cpc EXCEPT ![c] = "final_recog"]

\* the finally clause of audio_processor: pipeline.flush(on_final)
Flush(c, q, cd, t) ==
    LET r == state[c] IN
    IF Len(segment_buffer'[r]) > 0 /\ in_speech'[c]
    THEN BeginSegment(c, q, cd, t, "flush")
    ELSE /\ audio_q' = [audio_q EXCEPT ![r] = q]
         /\ consecutive_drops' = [consecutive_drops EXCEPT ![c] = cd]
         /\ cur' = [cur EXCEPT ![c] = NoCur]
         /\ cpc' = [cpc EXCEPT ![c] = "done"]

\* the top of the while loop of audio_processor, to its next await
LoopTop(c, q, cd, t) ==
    LET r == state[c]
        \* audio_processor of gateway.ws_audio has no drop pass
        drops == IF serving = "gateway" THEN 0 ELSE ProactiveDrops(q)
        cd1 == IF ~AboveHighWater(Len(q)) THEN cd
               ELSE IF drops > 0 THEN cd + drops ELSE 0
        sleeps == drops > 0 /\ cd1 >= max_consecutive_drops
    IN  IF stop[r]
        THEN Flush(c, q, cd, t)
        ELSE /\ audio_q' = [audio_q EXCEPT ![r] = SubSeq(q, drops + 1, Len(q))]
             /\ consecutive_drops' =
                    [consecutive_drops EXCEPT ![c] = IF sleeps THEN 0 ELSE cd1]
             /\ cur' = [cur EXCEPT ![c] = NoCur]
             /\ cpc' = [cpc EXCEPT ![c] = IF sleeps THEN "sleep" ELSE "get"]

\* variant: _emit_partial recognises whatever the buffer holds
EmitPartialNeverSkips(buf) == FALSE

\* the first test of _emit_partial: nothing to recognise, return
EmitPartialSkips(buf) == Len(buf) = 0

\* ASRPipeline._emit_partial, to the await of the recognition; cur.start
\* notes the segment the partial derives from
BeginPartial(c, q, cd, t) ==
    LET r == state[c] IN
    /\ audio_q' = [audio_q EXCEPT ![r] = q]
    /\ consecutive_drops' = [consecutive_drops EXCEPT ![c] = cd]
    /\ cur' = [cur EXCEPT ![c] = [t |-> t, start |-> speech_start'[r],
                                  end |-> 0,
                                  ret |-> "partial", text |-> EmptyText]]
    /\ cpc' = [cpc EXCEPT ![c] = "partial_recog"]

\* the six pipeline variables a chunk sets
SetPipe(c, insp, spb, sb, ss, la, trail) ==
    LET r == state[c] IN
    /\ in_speech' = [in_speech EXCEPT ![c] = insp]
    /\ speech_buffer' = [speech_buffer EXCEPT ![c] = spb]
    /\ segment_buffer' = [segment_buffer EXCEPT ![r] = sb]
    /\ speech_start' = [speech_start EXCEPT ![r] = ss]
    /\ last_active' = [last_active EXCEPT ![r] = la]
    /\ last_segment_has_trailing_silence' =
           [last_segment_has_trailing_silence EXCEPT ![c] = trail]

\* sum(len(chunk) for chunk in segment_buffer) / sr
RECURSIVE Duration(_)
Duration(buf) == IF buf = << >> THEN 0 ELSE Head(buf) + Duration(Tail(buf))

(***************************************************************************)
(* The recognitions on the worker pool.  wait_for gives a recognition up   *)
(* on a timeout or a cancellation, but a call that a worker thread has     *)
(* begun cannot be cancelled: it runs on to its end.  A worker is taken to *)
(* be free when a recognition is submitted (the pool has 8).               *)
(***************************************************************************)
\* abandoned recognitions of one record the model follows at a time
MaxStale == 2

\* _emit_partial: timeout = min(max(segment_duration * 1.5, 0.5), 1.5)
partial_timeout(d) == Min(Max((3 * d) \div 2, 10), 30)

\* _process_segment: timeout = min(max(segment_duration * 2 + 1.0, 2.0), 6.0)
final_timeout(d) == Min(Max(2 * d + 20, 40), 120)

\* SessionState.increment_stats
increment_stats(st, key, value) ==
    IF key \in DOMAIN st THEN [st EXCEPT ![key] = @ + value] ELSE st

\* milliseconds in a tick
TickMs == 50

\* stats of the record of c after a step of its consumer: chunk, the step
\* has begun in process_audio_chunk; a step that has entered the
\* recognition of _process_segment has counted the segment; transcript, the
\* step has passed the duplicate check of _process_segment
Counted(c, chunk, transcript) ==
    LET r == state[c]
        s0 == stats[r]
        s1 == IF chunk THEN increment_stats(s0, "audio_chunks_received", 1)
              ELSE s0
        segment == speech_buffer'[c] \o segment_buffer'[r]
        s2 == IF cpc[c] # "final_recog" /\ cpc'[c] = "final_recog"
              THEN increment_stats(
                       increment_stats(s1, "segments_processed", 1),
                       "total_duration_ms", TickMs * Duration(segment))
              ELSE s1
        s3 == IF transcript
              THEN increment_stats(s2, "transcripts_generated", 1) ELSE s2
    IN  stats' = [stats EXCEPT ![r] = s3]

\* asr of the record of c after a step of its consumer.  end is the way the
\* recognition the step began in has ended: "returned" (engine.recognize has
\* left the decoder state in the cache), "timeout" or "cancel" (the call runs
\* on), or "none".  Then the chunk of the step begins a segment or not, and
\* the step ends in the next recognition or not: _recognize_streaming with
\* reset_cache binds a new dict, which the calls still running do not hold.
Recognitions(c, end) ==
    LET r == state[c]
        a == asr[r]
        abandoned == end \in {"timeout", "cancel"}
        ended == IF end = "returned" THEN [a EXCEPT !.cache = @ \cup {"cur"}]
                 ELSE IF abandoned THEN [a EXCEPT !.stale.cur = @ + 1]
                 ELSE a
        onset == ~in_speech[c] /\ in_speech'[c]
        begun == IF onset
                 THEN [ended EXCEPT
                          !.cache = IF @ = {} THEN {} ELSE {"old"},
                          !.stale = [cur |-> 0,
                                     old |-> ended.stale.cur + ended.stale.old]]
                 ELSE ended
        submitted == IF cpc'[c] = "final_recog"
                     THEN [begun EXCEPT !.cache = {},
                                        !.stale = [cur |-> 0, old |-> 0]]
                     ELSE begun
        outcome == IF cpc[c] = "final_recog" /\ end = "timeout"
                   THEN "timeout" ELSE "none"
    IN  /\ (timed /\ abandoned) => a.stale.cur + a.stale.old < MaxStale
        /\ asr' = [asr EXCEPT ![r] = [(IF timed THEN submitted ELSE a)
                                         EXCEPT !.outcome = outcome]]

(***************************************************************************)
(* The consumer task audio_processor.  A step runs the task from one await *)
(* to the next.  Once processor_task.cancel() has been called the task     *)
(* resumes with CancelledError only (CancelDeliver).                       *)
(***************************************************************************)
Runs(c, pc) == cpc[c] = pc /\ ~cancelReq[c]

\* what the steps of the consumer leave alone
ConsumerFrame ==
    UNCHANGED <<stop, hpc, state, system_audio_enabled, cancelReq,
                timed, source, sessions, capture, putters, nextFrame,
                close_code, pass, frame, serving, sibling, calls, answerVars>>

\* the first step of the task: into the loop, up to wait_for(audio_q.get())
ConsumerStart(c) ==
    /\ Runs(c, "start")
    /\ UNCHANGED <<seq, segment_buffer, speech_start, last_active, partial_text,
                   chat_history, wire, wireTick, pipeVars, now>>
    /\ LoopTop(c, audio_q[state[c]], consecutive_drops[c], now)
    /\ UNCHANGED <<shut, vad, appended>>
    /\ ConsumerFrame
    /\ Counted(c, FALSE, FALSE)
    /\ Recognitions(c, "none")

\* wait_for(audio_q.get()) ends with TimeoutError: continue
GetTimeout(c) ==
    /\ Runs(c, "get")
    /\ audio_q[state[c]] = << >>
    /\ UNCHANGED <<seq, segment_buffer, speech_start, last_active, partial_text,
                   chat_history, wire, wireTick, pipeVars, now>>
    /\ LoopTop(c, audio_q[state[c]], consecutive_drops[c], now)
    /\ UNCHANGED <<shut, vad, appended>>
    /\ ConsumerFrame
    /\ Counted(c, FALSE, FALSE)
    /\ Recognitions(c, "none")

\* asyncio.sleep(0.05) ends: consecutive_drops = 0, on to wait_for(get).
\* The task never gets here (ConsumerNeverSleeps): a drop pass drops at most
\* 3 frames and leaves the queue non-empty, so the get that follows succeeds
\* and resets consecutive_drops before it can reach max_consecutive_drops.
\* The step is therefore no disjunct of the next-state relations.
SleepDone(c) ==
    /\ Runs(c, "sleep")
    /\ cpc' = [cpc EXCEPT ![c] = "get"]
    /\ consecutive_drops' = [consecutive_drops EXCEPT ![c] = 0]
    /\ UNCHANGED <<recVars, wire, wireTick, cur, pipeVars, now>>
    /\ UNCHANGED <<shut, vad, appended>>
    /\ ConsumerFrame
    /\ Counted(c, FALSE, FALSE)
    /\ Recognitions(c, "none")

\* ASRPipeline.process_audio_chunk on a chunk of duration d taken at time t,
\* up to its first await or its return; q is the queue without the chunk.
\* has_energy is the voicing decision; oMax, oSil, oPart are the outcomes of
\* the clock comparisons when the clock is left open.
process_audio_chunk(c, q, t, d, has_energy, oMax, oSil, oPart) ==
    LET r == state[c]
        onset == ~in_speech[c]
        ss1 == IF onset THEN t - VAD_PRE_SPEECH_PADDING ELSE speech_start[r]
        spb1 == IF onset THEN segment_buffer[r] ELSE speech_buffer[c]
        sb1 == Append(IF onset THEN << >> ELSE segment_buffer[r], d)
        sbIdle == Append(segment_buffer[r], d)
    IN
    /\ UNCHANGED <<seq, partial_text, chat_history, wire, wireTick,
                   last_final_text, last_final_time>>
    /\ IF has_energy
       THEN IF ss1 # None /\ ss1 # 0 /\ MaxSegmentReached(t, ss1, oMax)
            THEN \* forced cut: _process_segment
                 /\ SetPipe(c, TRUE, spb1, sb1, ss1, t, TRUE)
                 /\ UNCHANGED last_partial_time
                 /\ BeginSegment(c, q, 0, t, "voiced")
            ELSE /\ SetPipe(c, TRUE, spb1, sb1, ss1, t, FALSE)
                 /\ UNCHANGED last_partial_time
                 /\ IF PartialDue(t, last_partial_time[c], oPart)
                    THEN BeginPartial(c, q, 0, t)
                    ELSE LoopTop(c, q, 0, t)
       ELSE IF in_speech[c]
            THEN IF EndSilenceReached(t, last_active[r], oSil)
                 THEN IF Len(segment_buffer[r]) = 0
                      THEN \* _process_segment returns at once; state reset
                           /\ SetPipe(c, FALSE, << >>, << >>, None, t, FALSE)
                           /\ UNCHANGED last_partial_time
                           /\ LoopTop(c, q, 0, t)
                      ELSE /\ SetPipe(c, TRUE, speech_buffer[c],
                                      segment_buffer[r], speech_start[r],
                                      last_active[r], TRUE)
                           /\ UNCHANGED last_partial_time
                           /\ BeginSegment(c, q, 0, t, "unvoiced")
                 ELSE \* still inside the pause: keep accumulating
                      /\ SetPipe(c, TRUE, speech_buffer[c], sbIdle,
                                 speech_start[r], last_active[r], FALSE)
                      /\ UNCHANGED last_partial_time
                      /\ LoopTop(c, q, 0, t)
            ELSE \* pre-roll: keep at most pre_speech_padding
                 /\ SetPipe(c, FALSE, speech_buffer[c],
                            IF Duration(sbIdle) > VAD_PRE_SPEECH_PADDING
                            THEN Tail(sbIdle) ELSE sbIdle,
                            speech_start[r], last_active[r], FALSE)
                 /\ UNCHANGED last_partial_time
                 /\ LoopTop(c, q, 0, t)

\* wait_for(audio_q.get()) returns a chunk: process_audio_chunk
ConsumerGet(c, has_energy, oMax, oSil, oPart) ==
    /\ Runs(c, "get")
    /\ audio_q[state[c]] # << >>
    /\ UNCHANGED now
    /\ process_audio_chunk(c, Tail(audio_q[state[c]]), now, FrameDur,
                           has_energy, oMax, oSil, oPart)
    /\ UNCHANGED <<shut, vad, appended>>
    /\ ConsumerFrame
    /\ Counted(c, TRUE, FALSE)
    /\ Recognitions(c, "none")

\* variant: the state reset leaves speech_start as it is
SpeechStartKept(speech_start_now) == speech_start_now

\* the state reset after _process_segment: self.state.speech_start = None
SpeechStartReset(speech_start_now) == None

\* process_audio_chunk after _process_segment has returned: the state reset
\* of the caller, the partial check of the voiced branch, and the loop; or
\* the end of the task when the caller is flush
SegmentReturn(c, oPart) ==
    LET r == state[c]
        t == cur[c].t
    IN  IF cur[c].ret = "flush"
        THEN /\ UNCHANGED <<in_speech, speech_buffer, segment_buffer,
                            speech_start, last_active,
                            last_segment_has_trailing_silence,
                            last_partial_time, audio_q, consecutive_drops>>
             /\ cur' = [cur EXCEPT ![c] = NoCur]
             /\ cpc' = [cpc EXCEPT ![c] = "done"]
        ELSE /\ SetPipe(c, FALSE, << >>, << >>,
                        SpeechStartReset(speech_start[r]), t, FALSE)
             /\ IF /\ cur[c].ret = "voiced"
                   /\ PartialDue(t, last_partial_time[c], oPart)
                THEN \* _emit_partial on the buffer just cleared
                     IF EmitPartialSkips(segment_buffer'[r])
                     THEN /\ last_partial_time' =
                                 [last_partial_time EXCEPT ![c] = t]
                          /\ LoopTop(c, audio_q[r], consecutive_drops[c],
                                     now')
                     ELSE /\ UNCHANGED last_partial_time
                          /\ BeginPartial(c, audio_q[r],
                                          consecutive_drops[c], t)
                ELSE /\ UNCHANGED last_partial_time
                     /\ LoopTop(c, audio_q[r], consecutive_drops[c], now')

\* the recognition of _emit_partial ends.  res is RecogTimeout or the text of
\* the recognition after clean_oral_speech (EmptyText: nothing recognised);
\* lat is the time the recognition took.
PartialRecogDone(c, res, lat) ==
    LET r == state[c]
        emits == res # RecogTimeout /\ Strip(res) # EmptyText
                 /\ res # partial_text[r]
    IN
    /\ Runs(c, "partial_recog")
    /\ timed \/ lat = 0
    /\ now' = now + lat
    /\ UNCHANGED <<segment_buffer, speech_start, last_active, chat_history,
                   in_speech, speech_buffer, last_final_text, last_final_time,
                   last_segment_has_trailing_silence>>
    /\ IF emits
       THEN \* partial_text = text; await on_partial(text, timestamp)
            /\ partial_text' = [partial_text EXCEPT ![r] = res]
            /\ seq' = [seq EXCEPT ![r] = next_seq(@)]
            /\ Send(c, PartialMsg(next_seq(seq[r]), res, now'))
            /\ cpc' = [cpc EXCEPT ![c] = "partial_send"]
            /\ UNCHANGED <<audio_q, consecutive_drops, cur, last_partial_time>>
       ELSE \* back in process_audio_chunk: last_partial_time = current_time
            /\ last_partial_time' = [last_partial_time EXCEPT ![c] = cur[c].t]
            /\ UNCHANGED <<partial_text, seq, wire, wireTick>>
            /\ LoopTop(c, audio_q[r], consecutive_drops[c], now')
    /\ UNCHANGED <<shut, vad, appended>>
    /\ ConsumerFrame
    /\ Counted(c, FALSE, FALSE)
    /\ Recognitions(c, IF res = RecogTimeout THEN "timeout" ELSE "returned")

\* send_json of on_partial ends
PartialSendDone(c) ==
    /\ Runs(c, "partial_send")
    /\ last_partial_time' = [last_partial_time EXCEPT ![c] = cur[c].t]
    /\ UNCHANGED <<seq, segment_buffer, speech_start, last_active, partial_text,
                   chat_history, wire, wireTick, in_speech, speech_buffer,
                   last_final_text, last_final_time,
                   last_segment_has_trailing_silence, now>>
    /\ LoopTop(c, audio_q[state[c]], consecutive_drops[c], now)
    /\ UNCHANGED <<shut, vad, appended>>
    /\ ConsumerFrame
    /\ Counted(c, FALSE, FALSE)
    /\ Recognitions(c, "none")

\* variant: the text of a recognition is taken whatever way it ended
RawTextKept(res) == res

\* raw_text of _process_segment: "" when the recognition has timed out
RawText(res) == IF res = RecogTimeout THEN EmptyText ELSE res

\* the history after on_final, up to its send_json.  ws.ws_audio calls
\* state.add_to_history; gateway.ws_audio awaits transcript_dao.save_transcript
\* (a failure is logged) and has no history: the save is taken to return at
\* once
on_final_history(h, text, speaker) ==
    IF serving = "ws" THEN add_to_history(h, text, speaker) ELSE h

\* the duplicate check of _process_segment at time t
IsDuplicate(c, text, t, oWin) ==
    /\ InDuplicateWindow(t, last_final_time[c], oWin)
    /\ _is_similar_text(text, last_final_text[c])

\* the recognition of _process_segment ends.  res is RecogTimeout or the
\* recognised text: as the post-processor returns it (EmptyText: nothing
\* recognised, or filtered), or raw when the post-processor raises.  A raw
\* text is delivered unchecked if it passes the length filter.
FinalRecogDone(c, res, raises, lat, oWin, oPart) ==
    LET r == state[c]
        t == now + lat
        recognised == Strip(RawText(res)) # EmptyText
        checked == recognised /\ ~raises /\ ~IsDuplicate(c, res, t, oWin)
        fallback == /\ recognised /\ raises
                    /\ Len(StripPunct(res)) >= ASR_MIN_SENTENCE_LENGTH
        delivers == checked \/ fallback
    IN
    /\ Runs(c, "final_recog")
    /\ timed \/ lat = 0
    /\ now' = t
    /\ IF delivers
       THEN \* last_final_text, last_final_time; await on_final(...)
            /\ last_final_text' =
                   [last_final_text EXCEPT ![c] = IF checked THEN res ELSE @]
            /\ last_final_time' =
                   [last_final_time EXCEPT ![c] = IF checked THEN t ELSE @]
            /\ chat_history' = [chat_history EXCEPT ![r] =
                                   on_final_history(@, res, Speaker(source))]
            /\ seq' = [seq EXCEPT ![r] = next_seq(@)]
            /\ Send(c, FinalMsg(next_seq(seq[r]), Speaker(source), res,
                                cur[c].start, cur[c].end, t))
            /\ cur' = [cur EXCEPT ![c].text = res]
            /\ cpc' = [cpc EXCEPT ![c] = "final_send"]
            /\ UNCHANGED <<audio_q, segment_buffer, speech_start, last_active,
                           partial_text, consecutive_drops, in_speech,
                           speech_buffer, last_partial_time,
                           last_segment_has_trailing_silence>>
       ELSE \* timeout, nothing recognised, or a duplicate: partial_text = ""
            /\ partial_text' = [partial_text EXCEPT ![r] = EmptyText]
            /\ UNCHANGED <<seq, chat_history, wire, wireTick, last_final_text,
                           last_final_time>>
            /\ SegmentReturn(c, oPart)
    /\ shut' = IF hpc[c] # "cleanup" THEN shut
               ELSE IF delivers THEN [shut EXCEPT ![c].final = TRUE]
               ELSE [shut EXCEPT ![c].failed = TRUE]
    /\ appended' = [appended EXCEPT ![r] =
                       IF delivers /\ serving = "ws"
                       THEN Logged(@, res, Speaker(source)) ELSE @]
    /\ vad' = IF ~timed THEN vad
              ELSE IF delivers
                   THEN [vad EXCEPT !.finals = Min(vad.finals + 1, 2)]
                   ELSE [vad EXCEPT !.ok = FALSE]
    /\ ConsumerFrame
    /\ Counted(c, FALSE, checked)
    /\ Recognitions(c, IF res = RecogTimeout THEN "timeout" ELSE "returned")

\* send_json of on_final ends: partial_text = "", _process_segment returns
FinalSendDone(c, oPart) ==
    /\ Runs(c, "final_send")
    /\ partial_text' = [partial_text EXCEPT ![state[c]] = EmptyText]
    /\ UNCHANGED <<seq, chat_history, wire, wireTick, last_final_text,
                   last_final_time, now>>
    /\ SegmentReturn(c, oPart)
    /\ UNCHANGED <<shut, vad, appended>>
    /\ ConsumerFrame
    /\ Counted(c, FALSE, FALSE)
    /\ Recognitions(c, "none")

\* the task resumes with CancelledError.  Before its first step the task
\* ends without running.  Inside the recognition of _process_segment the
\* error is caught (raw_text = "") and the task goes on; everywhere else it
\* leaves the loop and the finally clause flushes.
CancelDeliver(c, oPart) ==
    /\ cancelReq[c]
    /\ cpc[c] \in {"start", "get", "sleep", "partial_recog", "partial_send",
                   "final_recog", "final_send"}
    /\ cancelReq' = [cancelReq EXCEPT ![c] = FALSE]
    /\ UNCHANGED <<stop, seq, chat_history, wire, wireTick, last_final_text,
                   last_final_time, now, hpc, state, system_audio_enabled,
                   timed, source, sessions, capture, putters, nextFrame,
                   shut, vad, appended, close_code, pass, frame, serving, sibling, calls, answerVars>>
    /\ IF cpc[c] = "final_recog"
       THEN /\ partial_text' = [partial_text EXCEPT ![state[c]] = EmptyText]
            /\ SegmentReturn(c, oPart)
       ELSE /\ UNCHANGED <<partial_text, in_speech, speech_buffer,
                           segment_buffer, speech_start, last_active,
                           last_segment_has_trailing_silence,
                           last_partial_time>>
            /\ IF cpc[c] = "start"
               THEN /\ cpc' = [cpc EXCEPT ![c] = "done"]
                    /\ UNCHANGED <<audio_q, consecutive_drops, cur>>
               ELSE Flush(c, audio_q[state[c]], consecutive_drops[c], now)
    /\ Counted(c, FALSE, FALSE)
    /\ Recognitions(c, IF cpc[c] \in {"partial_recog", "final_recog"}
                       THEN "cancel" ELSE "none")

(***************************************************************************)
(* handle_audio_websocket                                                  *)
(***************************************************************************)
HandlerFrame ==
    UNCHANGED <<timed, now, source, pipeVars, consecutive_drops, cur,
                pass, frame, serving, sibling, calls, answerVars>>

\* the endpoint ws_audio on a source it does not take: the socket is closed
\* with code 1008 and handle_audio_websocket is not called
RejectSource(c) ==
    /\ hpc[c] = "idle"
    /\ ~ValidSource(source)
    /\ close_code' = [close_code EXCEPT ![c] = POLICY_VIOLATION]
    /\ hpc' = [hpc EXCEPT ![c] = "closed"]
    /\ UNCHANGED <<recVars, state, system_audio_enabled, wire, wireTick,
                   taskVars, sessions, capture, putters, nextFrame, shut, vad,
                   appended, asr>>
    /\ UNCHANGED stats
    /\ HandlerFrame

\* variant: the receiver evicts the newest frame
DropNewest(q) == SubSeq(q, 1, Len(q) - 1)

\* the eviction of the receiver: state.audio_q.get_nowait()
DropOldest(q) == Tail(q)

\* ws.accept(), the "connected" info, the session record (created, or the
\* registered one reset), the pipeline and the consumer task
Connect(c) ==
    LET r == IF sessions = NoRec THEN c ELSE sessions IN
    /\ hpc[c] = "idle"
    /\ ValidSource(source)
    /\ Send(c, Msg("info", 0, <<"connected">>))
    /\ sessions' = r
    /\ state' = [state EXCEPT ![c] = r]
    \* SessionState.__init__ / SessionState.reset
    /\ audio_q' = [audio_q EXCEPT ![r] = << >>]
    /\ segment_buffer' = [segment_buffer EXCEPT ![r] = << >>]
    /\ stop' = [stop EXCEPT ![r] = FALSE]
    /\ seq' = [seq EXCEPT ![r] = 0]
    /\ last_active' = [last_active EXCEPT ![r] = now]
    /\ speech_start' = [speech_start EXCEPT ![r] = None]
    /\ partial_text' = [partial_text EXCEPT ![r] = EmptyText]
    /\ chat_history' = [chat_history EXCEPT ![r] = << >>]
    \* the put coroutines still pending belong to the queue replaced
    /\ putters' = [putters EXCEPT ![r] = << >>]
    \* processor_task = asyncio.create_task(audio_processor())
    /\ cpc' = [cpc EXCEPT ![c] = "start"]
    /\ hpc' = [hpc EXCEPT ![c] = "recv"]
    /\ UNCHANGED <<system_audio_enabled, cancelReq, capture, nextFrame>>
    /\ appended' = [appended EXCEPT ![r] = << >>]
    /\ UNCHANGED <<shut, vad, close_code>>
    \* SessionState.reset: asr_cache = {}
    /\ asr' = [asr EXCEPT ![r] = NoAsr]
    \* SessionState.__init__ / SessionState.reset: every counter is 0
    /\ stats' = [stats EXCEPT ![r] = [k \in DOMAIN @ |-> 0]]
    /\ HandlerFrame

\* a binary frame: the receiver's enqueue with its backpressure policy
RecvBytes(c, maxFrames) ==
    LET r == state[c]
        q == audio_q[r]
        q1 == IF Full(q) /\ WS_AUDIO_QUEUE_DROP_OLDEST /\ q # << >>
              THEN DropOldest(q) ELSE q
    IN
    /\ hpc[c] = "recv"
    /\ nextFrame <= maxFrames
    \* await state.audio_q.put(pcm) returns once the queue has room
    /\ ~Full(q1)
    /\ audio_q' = [audio_q EXCEPT ![r] = Append(q1, nextFrame)]
    /\ nextFrame' = nextFrame + 1
    /\ UNCHANGED <<stop, seq, segment_buffer, speech_start, last_active,
                   partial_text, chat_history, connVars, cpc, cancelReq,
                   sessions, capture, putters>>
    /\ UNCHANGED <<shut, vad, appended, close_code, asr>>
    /\ UNCHANGED stats
    /\ HandlerFrame

\* {"type": "start_system_audio"} on a sys socket
RecvStartSystemAudio(c, ok) ==
    LET success == ok \/ capture.on IN
    /\ hpc[c] = "recv"
    /\ source = "sys"
    /\ IF system_audio_enabled[c]
       THEN UNCHANGED <<system_audio_enabled, capture, wire, wireTick>>
       ELSE /\ capture' = [on |-> success, cb |-> c]
            /\ system_audio_enabled' =
                   [system_audio_enabled EXCEPT ![c] = success]
            /\ IF success
               THEN Send(c, Msg("info", 0, <<"system audio started">>))
               ELSE Send(c, Msg("error", 0,
                                <<"failed to start system audio">>))
    /\ UNCHANGED <<recVars, hpc, state, cpc, cancelReq, sessions, putters,
                   nextFrame>>
    /\ UNCHANGED <<shut, vad, appended, close_code, asr>>
    /\ UNCHANGED stats
    /\ HandlerFrame

\* {"type": "stop_system_audio"} on a sys socket
RecvStopSystemAudio(c) ==
    /\ hpc[c] = "recv"
    /\ source = "sys"
    /\ system_audio_enabled[c]
    /\ capture' = [on |-> FALSE, cb |-> 0]
    /\ system_audio_enabled' = [system_audio_enabled EXCEPT ![c] = FALSE]
    /\ Send(c, Msg("info", 0, <<"system audio stopped">>))
    /\ UNCHANGED <<recVars, hpc, state, cpc, cancelReq, sessions, putters,
                   nextFrame>>
    /\ UNCHANGED <<shut, vad, appended, close_code, asr>>
    /\ UNCHANGED stats
    /\ HandlerFrame

\* the receive loop ends ({"type": "stop"}, a disconnect or a receive
\* error) and the finally clause runs up to "await processor_task"
Shutdown(c, cause) ==
    /\ hpc[c] = "recv"
    /\ stop' = [stop EXCEPT ![state[c]] = TRUE]
    /\ capture' = IF system_audio_enabled[c]
                  THEN [on |-> FALSE, cb |-> 0] ELSE capture
    /\ cancelReq' = [cancelReq EXCEPT ![c] = cpc[c] # "done"]
    /\ hpc' = [hpc EXCEPT ![c] = "cleanup"]
    /\ UNCHANGED <<audio_q, seq, segment_buffer, speech_start, last_active,
                   partial_text, chat_history, state, system_audio_enabled,
                   wire, wireTick, cpc, sessions, putters, nextFrame>>
    /\ shut' = [shut EXCEPT ![c].open =
                    /\ in_speech[c]
                    /\ Len(segment_buffer[state[c]]) > 0
                    /\ cpc[c] # "final_send",
                            ![c].text = (cause = "text")]
    /\ UNCHANGED <<vad, appended, close_code, asr>>
    /\ UNCHANGED stats
    /\ HandlerFrame

\* the text frames that are no control message the handler knows: text that
\* is not JSON, a JSON object of another type, a JSON value that is no object
TextKinds == {"invalid", "object", "value"}

\* a text frame of kind k.  json.loads raises JSONDecodeError (continue), or
\* returns an object no branch takes, or a value without the method get:
\* data.get raises AttributeError, which the handler of the whole loop
\* catches, and the finally clause runs
RecvText(c, k) ==
    IF k = "value"
    THEN Shutdown(c, "text")
    ELSE \* continue: the frame leaves nothing behind
         /\ hpc[c] = "recv"
         /\ UNCHANGED vars

\* processor_task has ended: the record is removed, the socket closed
CleanupDone(c) ==
    /\ hpc[c] = "cleanup"
    /\ cpc[c] = "done"
    /\ sessions' = NoRec
    /\ hpc' = [hpc EXCEPT ![c] = "closed"]
    \* ws.close(): code 1000
    /\ close_code' = [close_code EXCEPT ![c] = NORMAL_CLOSURE]
    /\ UNCHANGED <<recVars, state, system_audio_enabled, wire, wireTick, cpc,
                   cancelReq, capture, putters, nextFrame>>
    /\ UNCHANGED <<shut, vad, appended, asr>>
    /\ UNCHANGED stats
    /\ HandlerFrame

\* system_audio_callback, on the capture thread: if the queue is not full,
\* a put coroutine is scheduled on the loop
SystemAudioCallback(c, maxFrames) ==
    LET r == state[c] IN
    /\ capture.on
    /\ capture.cb = c
    /\ nextFrame <= maxFrames
    /\ Len(putters[r]) < MaxPutters
    /\ ~Full(audio_q[r])
    /\ putters' = [putters EXCEPT ![r] = Append(@, nextFrame)]
    /\ nextFrame' = nextFrame + 1
    /\ UNCHANGED <<recVars, connVars, cpc, cancelReq, sessions, capture>>
    /\ UNCHANGED <<shut, vad, appended, close_code, asr>>
    /\ UNCHANGED stats
    /\ HandlerFrame

\* a scheduled state.audio_q.put(audio_data) runs: it waits while the
\* queue is full
PutterRun(r) ==
    /\ putters[r] # << >>
    /\ ~Full(audio_q[r])
    /\ audio_q' = [audio_q EXCEPT ![r] = Append(@, Head(putters[r]))]
    /\ putters' = [putters EXCEPT ![r] = Tail(@)]
    /\ UNCHANGED <<stop, seq, segment_buffer, speech_start, last_active,
                   partial_text, chat_history, connVars, cpc, cancelReq,
                   sessions, capture, nextFrame>>
    /\ UNCHANGED <<shut, vad, appended, close_code, asr>>
    /\ UNCHANGED stats
    /\ HandlerFrame

(***************************************************************************)
(* The gateway: both connections, the clock left open.                     *)
(***************************************************************************)
\* texts the recogniser returns in the gateway specification
GwTexts == {<<"a">>}
GwResults == GwTexts \cup {EmptyText, RecogTimeout}

\* the handler and its consumer task
CoreNext(CS, maxFrames) ==
    \/ \E c \in CS : Connect(c)
    \/ \E c \in CS : RecvBytes(c, maxFrames)
    \/ \E c \in CS, cause \in {"stop", "disconnect", "error"} :
           Shutdown(c, cause)
    \/ \E c \in CS : CleanupDone(c)
    \/ \E c \in CS : ConsumerStart(c)
    \/ \E c \in CS : GetTimeout(c)
    \/ \E c \in CS, he, oMax, oSil, oPart \in BOOLEAN :
           ConsumerGet(c, he, oMax, oSil, oPart)
    \/ \E c \in CS, res \in GwResults : PartialRecogDone(c, res, 0)
    \/ \E c \in CS : PartialSendDone(c)
    \/ \E c \in CS, res \in GwResults, oWin, oPart \in BOOLEAN :
           FinalRecogDone(c, res, FALSE, 0, oWin, oPart)
    \/ \E c \in CS, oPart \in BOOLEAN : FinalSendDone(c, oPart)
    \/ \E c \in CS, oPart \in BOOLEAN : CancelDeliver(c, oPart)

\* the system audio of a sys socket
SysNext(CS, maxFrames) ==
    \/ \E c \in CS, ok \in BOOLEAN : RecvStartSystemAudio(c, ok)
    \/ \E c \in CS : RecvStopSystemAudio(c)
    \/ \E c \in CS : SystemAudioCallback(c, maxFrames)
    \/ \E r \in CS : PutterRun(r)

\* one connection, mic or sys
Next ==
    \/ CoreNext({1}, MaxFrames)
    \/ SysNext({1}, MaxFrames)
    \/ \E k \in TextKinds : RecvText(1, k)
    \/ RejectSource(1)

Spec == Init /\ [][Next]_vars

(***************************************************************************)
(* Two connections to the same (session_id, source): the second may be     *)
(* accepted while the first is still open, and then shares its record.     *)
(***************************************************************************)
\* number of binary frames sent when two connections are modelled
MaxFramesShared == 2

InitShared == Init /\ source = "mic"

NextShared == CoreNext(Conns, MaxFramesShared)

SpecShared == InitShared /\ [][NextShared]_vars

\* the event loop runs every task that can run; the clients are free to
\* stay silent and connected
FairShared ==
    \A c \in Conns :
        /\ WF_vars(ConsumerStart(c))
        /\ WF_vars(GetTimeout(c))
        /\ WF_vars(\E he, oMax, oSil, oPart \in BOOLEAN :
                       ConsumerGet(c, he, oMax, oSil, oPart))
        /\ WF_vars(\E res \in GwResults : PartialRecogDone(c, res, 0))
        /\ WF_vars(PartialSendDone(c))
        /\ WF_vars(\E res \in GwResults, oWin, oPart \in BOOLEAN :
                       FinalRecogDone(c, res, FALSE, 0, oWin, oPart))
        /\ WF_vars(\E oPart \in BOOLEAN : FinalSendDone(c, oPart))
        /\ WF_vars(\E oPart \in BOOLEAN : CancelDeliver(c, oPart))
        /\ WF_vars(CleanupDone(c))

SpecSharedFair == SpecShared /\ FairShared

(***************************************************************************)
(* Properties of the gateway.                                              *)
(***************************************************************************)
\* the consumer task never enters asyncio.sleep(0.05)
ConsumerNeverSleeps == \A c \in Conns : cpc[c] # "sleep"

\* C1: on every socket, each message the server sends (info, partial, final,
\* error) carries a seq greater than the seq of the message sent before it.
SeqStrictlyIncreasing ==
    [][\A c \in Conns :
          (wireTick'[c] # wireTick[c] /\ wire[c].type # "none")
              => wire'[c].seq > wire[c].seq]_vars

QueueBounded ==
    \A r \in Conns : Len(audio_q[r]) <= WS_AUDIO_QUEUE_MAX_SIZE

\* the producers have saturated a queue the consumer never read: every
\* frame of the behaviour was sent and the queue is at its capacity
QueueBoundedWitness ==
    /\ cpc[1] = "start"
    /\ nextFrame = MaxFrames + 1
    /\ Len(audio_q[1]) = WS_AUDIO_QUEUE_MAX_SIZE

\* C5: when the receiver enqueues a frame while audio_q is full, the queue
\* afterwards is the old queue without its oldest frame, followed by the
\* new frame.  (A step of the receiver is one that takes a frame id without
\* scheduling a put coroutine.)
DropOldestOnFull ==
    [][\A r \in Conns :
          (/\ nextFrame' # nextFrame
           /\ putters' = putters
           /\ sessions = r
           /\ Len(audio_q[r]) = WS_AUDIO_QUEUE_MAX_SIZE)
              => audio_q'[r] = Append(Tail(audio_q[r]), nextFrame)]_vars

\* the receiver has put a frame into a full queue the consumer never read
DropOldestWitness ==
    /\ cpc[1] = "start"
    /\ source = "mic"
    /\ Len(audio_q[1]) = WS_AUDIO_QUEUE_MAX_SIZE
    /\ Head(audio_q[1]) = 2
    /\ audio_q[1][WS_AUDIO_QUEUE_MAX_SIZE] = WS_AUDIO_QUEUE_MAX_SIZE + 1

\* C9: a handler that began to shut down with a segment open has sent the
\* final of that segment by the time it has removed the record -- unless a
\* final recognition run during the shutdown ended without a valid,
\* non-duplicate text.
OpenSegmentFlushed ==
    \A c \in Conns :
        (hpc[c] = "closed" /\ shut[c].open /\ ~shut[c].failed)
            => shut[c].final

\* C10: a handler that starts its shutdown completes it: its consumer task
\* terminates, the record is removed and the socket closed.
ShutdownCompletes ==
    \A c \in Conns :
        (hpc[c] = "cleanup") ~> (cpc[c] = "done" /\ hpc[c] = "closed")

(***************************************************************************)
(* The segmenter against the wall clock.  Connection 1 is open on a mic     *)
(* socket, its consumer waits on an empty queue, and the client streams     *)
(* frames of FrameDur in real time: frame k arrives at T0 + k * FrameDur    *)
(* and the consumer takes it then, or as soon as it is back at the queue.   *)
(***************************************************************************)
\* number of frames streamed in one behaviour of the segmenter
MaxVadFrames == 14

\* the state after Connect(1) and the first step of the consumer
InitRecords ==
    /\ calls = NoCalls
    /\ sibling = NoRec
    /\ now = T0
    /\ appended = [r \in Conns |-> << >>]
    /\ InitAnswer
    /\ close_code = [c \in Conns |-> None]
    /\ sessions = 1
    /\ audio_q = [r \in Conns |-> << >>]
    /\ stop = [r \in Conns |-> FALSE]
    /\ seq = [r \in Conns |-> 0]
    /\ segment_buffer = [r \in Conns |-> << >>]
    /\ speech_start = [r \in Conns |-> None]
    /\ last_active = [r \in Conns |-> T0]
    /\ partial_text = [r \in Conns |-> EmptyText]
    /\ chat_history = [r \in Conns |-> << >>]
    /\ hpc = [c \in Conns |-> IF c = 1 THEN "recv" ELSE "idle"]
    /\ state = [c \in Conns |-> IF c = 1 THEN 1 ELSE NoRec]
    /\ system_audio_enabled = [c \in Conns |-> FALSE]
    /\ wire = [c \in Conns |-> IF c = 1 THEN Msg("info", 0, <<"connected">>)
                               ELSE NoMsg]
    /\ wireTick = [c \in Conns |-> IF c = 1 THEN 1 ELSE 0]
    /\ cpc = [c \in Conns |-> IF c = 1 THEN "get" ELSE "none"]
    /\ cancelReq = [c \in Conns |-> FALSE]
    /\ consecutive_drops = [c \in Conns |-> 0]
    /\ cur = [c \in Conns |-> NoCur]
    /\ in_speech = [c \in Conns |-> FALSE]
    /\ speech_buffer = [c \in Conns |-> << >>]
    /\ last_partial_time = [c \in Conns |-> 0]
    /\ last_final_text = [c \in Conns |-> EmptyText]
    /\ last_final_time = [c \in Conns |-> 0]
    /\ last_segment_has_trailing_silence = [c \in Conns |-> FALSE]
    /\ capture = [on |-> FALSE, cb |-> 0]
    /\ putters = [r \in Conns |-> << >>]
    /\ nextFrame = 1
    /\ shut = [c \in Conns |-> NoShut]
    /\ vad = NoVad
    /\ asr = [r \in Conns |-> NoAsr]

InitOpen == source = "mic" /\ InitRecords

InitVad == timed = TRUE /\ pass = NoPass /\ frame = NoFrame /\ serving = "ws" /\ stats = Untracked
    /\ InitOpen

\* the ghost vad after a frame taken at time t
VadObserve(v, has_energy, t) ==
    CASE v.phase = "pre" ->
             IF has_energy
             THEN [v EXCEPT !.phase = "speech", !.on = t, !.off = t]
             ELSE v
      [] v.phase = "speech" ->
             IF has_energy THEN [v EXCEPT !.off = t]
             ELSE [v EXCEPT !.phase = "post", !.sil = FrameDur]
      [] v.phase = "post" ->
             IF has_energy
             THEN [v EXCEPT !.phase = "mixed", !.on = 0, !.off = 0, !.sil = 0]
             ELSE [v EXCEPT !.sil = Min(v.sil + FrameDur,
                                        VAD_END_SILENCE + FrameDur)]
      [] OTHER -> v

\* the next frame arrives and the consumer, waiting on the empty queue or
\* just back at it, takes it: wait_for(audio_q.get()), process_audio_chunk
VadFrame(has_energy, maxFrames) ==
    LET arrival == T0 + nextFrame * FrameDur
        t == Max(now, arrival)
    IN  /\ timed
        /\ Runs(1, "get")
        /\ audio_q[1] = << >>
        /\ nextFrame <= maxFrames
        /\ now' = t
        /\ nextFrame' = nextFrame + 1
        /\ process_audio_chunk(1, << >>, t, FrameDur, has_energy,
                               FALSE, FALSE, FALSE)
        /\ vad' = VadObserve(vad, has_energy, t)
        /\ UNCHANGED <<stop, hpc, state, system_audio_enabled, cancelReq,
                       timed, source, sessions, capture, putters, shut,
                       appended, close_code, pass, frame, serving, sibling, stats,
                       calls, answerVars>>
        /\ Recognitions(1, "none")

\* what the recogniser returns, and the time a recognition takes: short of
\* its timeout, and short enough for the frames that arrive meanwhile to
\* wait in the queue below its high-water mark
VadResults == {<<"a">>, EmptyText}
VadLats == {0, FrameDur}
InTime(lat) == now + lat <= T0 + nextFrame * FrameDur + FrameDur

NextVad ==
    \/ \E he \in BOOLEAN : VadFrame(he, MaxVadFrames)
    \/ \E res \in VadResults, lat \in VadLats :
           InTime(lat) /\ PartialRecogDone(1, res, lat)
    \/ PartialSendDone(1)
    \/ \E res \in VadResults, lat \in VadLats :
           InTime(lat) /\ FinalRecogDone(1, res, FALSE, lat, FALSE, FALSE)
    \/ FinalSendDone(1, FALSE)

SpecVad == InitVad /\ [][NextVad]_vars

(***************************************************************************)
(* The segmenter over a long stream: speech from the first frame, at most   *)
(* one pause, speech again; every recognition returns at once, with text.   *)
(***************************************************************************)
\* number of frames streamed in one behaviour of the long stream
MaxLongFrames == 58

LongResults == {<<"a">>}

NextVadLong ==
    \/ \E he \in BOOLEAN :
           /\ vad.phase \in {"pre", "mixed"} => he
           /\ VadFrame(he, MaxLongFrames)
    \/ \E res \in LongResults : PartialRecogDone(1, res, 0)
    \/ PartialSendDone(1)
    \/ \E res \in LongResults :
           FinalRecogDone(1, res, FALSE, 0, FALSE, FALSE)
    \/ FinalSendDone(1, FALSE)

SpecVadLong == InitVad /\ [][NextVadLong]_vars

(***************************************************************************)
(* Duplicate suppression against the wall clock: short utterances, each    *)
(* recognised at once as one of a few texts; the post-processor may raise. *)
(* No partial is sent, so the last message on the socket is the last final.*)
(***************************************************************************)
\* number of frames streamed in one behaviour of the duplicate check
MaxDedupFrames == 17

A7 == <<"a", "a", "a", "a", "a", "a", "a">>
A10 == A7 \o <<"a", "a", "a">>
B7 == <<"b", "b", "b", "b", "b", "b", "b">>
\* texts of 7 and 10 characters, the first contained in the second; the
\* first with marks the check strips; a text contained in neither
DedupTexts == {A7, A10, <<"a", ",", "a", "a">> \o <<"a", "a", " ", "a", "a">>,
               B7}

NextDedup ==
    \/ \E he \in BOOLEAN :
           /\ vad.phase = "pre" => he
           /\ VadFrame(he, MaxDedupFrames)
    \/ PartialRecogDone(1, EmptyText, 0)
    \/ \E res \in DedupTexts, raises \in BOOLEAN :
           FinalRecogDone(1, res, raises, 0, FALSE, FALSE)
    \/ FinalSendDone(1, FALSE)

SpecDedup == InitVad /\ [][NextDedup]_vars

(***************************************************************************)
(* The dialogue history under its callers (on_final, the answer agent, the *)
(* chat API): any sequence of add_to_history on the record of connection 1.*)
(***************************************************************************)
\* number of entries appended in one behaviour of the history
MaxAppends == 5

HistContents == {<<"a">>, <<"b">>, <<" ", "a">>, <<" ">>, EmptyText}
HistSpeakers == {"user", "interviewer", "assistant"}

InitHist == timed = FALSE /\ pass = NoPass /\ frame = NoFrame /\ serving = "ws" /\ stats = Untracked
    /\ InitOpen

\* state.add_to_history(content, speaker, ...)
AddToHistory(r, content, speaker) ==
    /\ sessions = r
    /\ Len(appended[r]) < MaxAppends
    /\ chat_history' = [chat_history EXCEPT ![r] =
                           add_to_history(@, content, speaker)]
    /\ appended' = [appended EXCEPT ![r] = Logged(@, content, speaker)]
    /\ UNCHANGED <<audio_q, stop, seq, segment_buffer, speech_start,
                   last_active, partial_text, connVars, taskVars, pipeVars,
                   timed, now, source, sessions, capture, putters, nextFrame,
                   shut, vad, close_code, asr, pass, frame, serving, sibling, stats,
                   calls, answerVars>>

NextHist ==
    \E content \in HistContents, speaker \in HistSpeakers :
        AddToHistory(1, content, speaker)

SpecHist == InitHist /\ [][NextHist]_vars

(***************************************************************************)
(* Properties of the segmenter.                                            *)
(***************************************************************************)
\* C6: when the frames so far are one contiguous voiced window followed by
\* at least VAD_END_SILENCE of unvoiced frames, every final recognition has
\* delivered and the consumer is back at the queue, then exactly one final
\* has been sent, its start_time lies at most VAD_PRE_SPEECH_PADDING before
\* the start of the first voiced frame and not after the frame, and its
\* end_time lies at most VAD_PRE_SPEECH_PADDING after the last voiced frame
\* and not before it.
OneFinalCoversWindow ==
    (/\ vad.phase = "post"
     /\ vad.sil >= VAD_END_SILENCE
     /\ vad.ok
     /\ cpc[1] = "get")
        => /\ vad.finals = 1
           /\ wire[1].type = "final"
           /\ wire[1].start_time <= vad.on
           /\ wire[1].start_time >= vad.on - FrameDur - VAD_PRE_SPEECH_PADDING
           /\ wire[1].end_time >= vad.off
           /\ wire[1].end_time <= vad.off + VAD_PRE_SPEECH_PADDING

\* C7: no final is sent with end_time - start_time greater than
\* VAD_MAX_SEGMENT plus the duration of one frame.
SegmentLengthBounded ==
    \A c \in Conns :
        wire[c].type = "final" =>
            wire[c].end_time - wire[c].start_time <= VAD_MAX_SEGMENT + FrameDur

\* C3: when a final is sent less than duplicate_threshold after the final
\* sent before it, the two texts are not similar: they are not equal after
\* stripping punctuation and white space, and neither contains the other
\* with a length ratio of 0.7 or more.
DuplicatesSuppressed ==
    [][\A c \in Conns :
          LET c1 == StripPunct(wire[c].text)
              c2 == StripPunct(wire'[c].text)
          IN  (/\ wireTick'[c] # wireTick[c]
               /\ wire[c].type = "final"
               /\ wire'[c].type = "final"
               /\ wire'[c].timestamp - wire[c].timestamp < duplicate_threshold)
                  => ~(\/ c1 = c2
                       \/ /\ Contains(c1, c2) \/ Contains(c2, c1)
                          /\ 10 * Min(Len(c1), Len(c2))
                                 >= 7 * Max(Len(c1), Len(c2)))]_vars

(***************************************************************************)
(* Properties of the session record.                                       *)
(***************************************************************************)
\* C8: the history never holds more than CHAT_HISTORY_MAX entries, and once
\* more than CHAT_HISTORY_MAX entries have been appended it holds exactly
\* the CHAT_HISTORY_MAX most recently appended ones, in append order.
HistoryBounded ==
    \A r \in Conns :
        LET n == Len(appended[r]) IN
        /\ Len(chat_history[r]) <= CHAT_HISTORY_MAX
        /\ n > CHAT_HISTORY_MAX =>
               chat_history[r] = SubSeq(appended[r],
                                        n - CHAT_HISTORY_MAX + 1, n)

\* more entries have been appended than the history holds, and the oldest
\* one has left it
HistoryBoundedWitness ==
    /\ Len(appended[1]) = MaxAppends
    /\ Len(chat_history[1]) = CHAT_HISTORY_MAX
    /\ chat_history[1][1] # appended[1][1]


(***************************************************************************)
(* The consumer after stop.                                                *)
(***************************************************************************)
\* C11: once stop is set on a session record, the consumer takes no further
\* frame from its audio_q: in a step that is neither a connect nor a step of
\* a handler, a queue whose record has stop set does not get shorter.
NoDequeueAfterStop ==
    [][\A r \in Conns :
          (stop[r] /\ hpc' = hpc /\ nextFrame' = nextFrame)
              => Len(audio_q'[r]) >= Len(audio_q[r])]_vars

(***************************************************************************)
(* The endpoint on a source it does not take.                              *)
(***************************************************************************)
\* C12: when the source of the path is neither mic nor sys, the socket is
\* closed with code 1008 or still to be handled, no message is sent on it,
\* and there is no session record, no queued frame and no consumer task.
InvalidSourceRejected ==
    source \notin {"mic", "sys"} =>
        /\ sessions = NoRec
        /\ \A c \in Conns :
               /\ hpc[c] \in {"idle", "closed"}
               /\ hpc[c] = "closed" => close_code[c] = POLICY_VIOLATION
               /\ state[c] = NoRec
               /\ cpc[c] = "none"
               /\ wire[c] = NoMsg
        /\ \A r \in Conns : audio_q[r] = << >>

\* a socket on another source has been closed
InvalidSourceWitness ==
    /\ source = "tv"
    /\ hpc[1] = "closed"
    /\ close_code[1] = POLICY_VIOLATION

(***************************************************************************)
(* The order of partials and finals.                                       *)
(***************************************************************************)
\* C13: a partial is sent only while the segment it derives from is open,
\* its final not yet sent; and when the message before it is a final, that
\* final belongs to an earlier segment.
PartialsBeforeFinal ==
    [][\A c \in Conns :
          (wireTick'[c] # wireTick[c] /\ wire'[c].type = "partial")
              => /\ in_speech[c]
                 /\ speech_start[state[c]] # None
                 /\ cur[c].start = speech_start[state[c]]
                 /\ wire[c].type = "final"
                        => wire[c].start_time < cur[c].start]_vars

\* the maximum segment length has cut a segment on a frame on which a
\* partial is due, and the final of the segment has been sent
PartialsBeforeFinalWitness ==
    /\ cpc[1] = "final_send"
    /\ cur[1].ret = "voiced"
    /\ cur[1].t - last_partial_time[1] >= PARTIAL_INTERVAL

(***************************************************************************)
(* The LLM clients: LLMAPI.chat (nlp/llm_api.py) and                       *)
(* LLMService.stream_generate (services/llm_service.py).  An error message *)
(* is the set of the words the clients look for in it; a text is a         *)
(* sequence of characters; the response of a streaming request is a        *)
(* sequence of deltas.                                                     *)
(***************************************************************************)
\* "Unsupported parameter: 'max_tokens' is not supported with this model.
\* Use 'max_completion_tokens' instead."
KwMaxTokens == {"max_tokens", "max_completion_tokens", "unsupported"}
\* "Unsupported value: 'temperature' does not support 0.7 with this model.
\* Only the default (1) value is supported."
KwTemperature == {"temperature", "unsupported", "unsupported value",
                  "only the default"}
\* "Your organization must be verified to stream this model."
KwStream == {"stream", "organization", "verified"}
\* an error that names no parameter: a rate limit, a network error
KwOther == {}
\* a message that holds every word the clients look for
KwAll == KwMaxTokens \cup KwTemperature \cup KwStream \cup {"unsupported_value"}
ErrorMessages == {KwMaxTokens, KwTemperature, KwStream, KwOther, KwAll}

\* the model names configured
Families == {"gpt-3.5", "gpt-4o", "gpt-5", "o1", "claude"}

\* LLMAPI.chat: use_max_completion_tokens, use_default_temperature
ChatUsesCompletionTokens(f) == f \in {"claude", "gpt-5", "gpt-4o"}
ChatDefaultTemperature(f) == f \in {"gpt-5", "gpt-4o"}
\* LLMService: _should_use_max_completion_tokens_for_model,
\* _should_skip_temperature_for_model
ServiceUsesCompletionTokens(f) == f \in {"gpt-4o", "o1"}
ServiceSkipsTemperature(f) == f \in {"gpt-5", "o1"}

TokParam(mct) == IF mct THEN {"max_completion_tokens"} ELSE {"max_tokens"}

\* settings.LLM_MAX_TOKENS
LLM_MAX_TOKENS == 2000

\* the token limits a caller of chat may pass as max_tokens
Limits == {500, 999, 1000, LLM_MAX_TOKENS, 4000, 5000}

\* variant: the parameter is added and max_tokens stays
AddCompletionTokens(tok) == tok \cup {"max_completion_tokens"}

\* del request_params["max_tokens"] if it is there (payload.pop), then
\* request_params["max_completion_tokens"] = token_limit
UseCompletionTokens(tok) ==
    (tok \ {"max_tokens"}) \cup {"max_completion_tokens"}

\* new_limit of the fallback when a response has no content and a
\* finish_reason; reasoning: its usage reports reasoning tokens
RaisedLimit(current_limit, reasoning) ==
    LET new_limit == IF reasoning THEN Max(current_limit * 3, 2000)
                     ELSE Min(current_limit * 2, 2000)
    IN  IF current_limit >= 1000 THEN 4000 ELSE new_limit

\* the responses a streaming endpoint may give: nothing; one delta; a text
\* in two deltas; a text with two blanks in a row
White == {" "}
Streams == {<< >>,
            << <<"a">> >>,
            << <<"a">>, <<" ", "b">> >>,
            << <<"a">>, <<" ", " ", "b">> >>}

\* the content of the non-stream response: the deltas in one piece
RECURSIVE Flatten(_)
Flatten(ds) == IF ds = << >> THEN << >> ELSE Head(ds) \o Flatten(Tail(ds))

\* str.split(): the words of a text, split at runs of white space
RECURSIVE SplitAcc(_, _, _)
SplitAcc(text, word, acc) ==
    LET acc1 == IF word = << >> THEN acc ELSE Append(acc, word) IN
    IF text = << >> THEN acc1
    ELSE IF Head(text) \in White THEN SplitAcc(Tail(text), << >>, acc1)
         ELSE SplitAcc(Tail(text), Append(word, Head(text)), acc)
Split(text) == SplitAcc(text, << >>, << >>)

\* the simulated stream of the fallback of stream_generate: the first word,
\* then each word with a blank before it
SimulatedStream(content) ==
    LET words == Split(content) IN
    [i \in 1..Len(words) |-> IF i = 1 THEN words[i] ELSE <<" ">> \o words[i]]

\* the chunks the clients yield
Chunk(content, done) == [content |-> content, done |-> done, error |-> FALSE,
                         kw |-> {}]
\* {"content": f"API错误: {error_msg}", "done": True, "error": True}
ErrorChunk(m) == [content |-> <<"#error">>, done |-> TRUE, error |-> TRUE,
                  kw |-> m]
\* {"content": "未获取到响应内容", "done": True, "error": True}
NoContentChunk == ErrorChunk({})
DoneChunk == Chunk(<< >>, TRUE)
DeltaChunks(ds) == [i \in 1..Len(ds) |-> Chunk(ds[i], FALSE)]

\* the responses of the endpoint.  ok: the deltas (the content); empty:
\* choices without content, with a finish_reason; no_choices; err: a
\* rejection with message msg (status 400); http: another status or a
\* network error; break: a stream that delivers k deltas and then fails;
\* empty with k > 0: the usage reports reasoning tokens
Resp(kind, msg, k) == [kind |-> kind, msg |-> msg, k |-> k]

\* a mock endpoint rejects a request that carries a parameter it does not
\* take, and answers every other request
MockResp(p) ==
    IF "max_tokens" \in ep.rejects /\ "max_tokens" \in p.tok
    THEN Resp("err", KwMaxTokens, 0)
    ELSE IF "temperature" \in ep.rejects /\ p.temp
         THEN Resp("err", KwTemperature, 0)
         ELSE IF "stream" \in ep.rejects /\ p.stream
              THEN Resp("err", KwStream, 0)
              ELSE Resp("ok", {}, 0)

AllResps ==
    {Resp("ok", {}, 0), Resp("empty", {}, 0), Resp("empty", {}, 1),
     Resp("no_choices", {}, 0),
     Resp("http", KwOther, 0)}
    \cup {Resp("err", m, 0) : m \in ErrorMessages}
    \cup {Resp("break", KwOther, k) : k \in {0, 1}}

\* an endpoint that answers as it likes; only a stream breaks, and before
\* its last delta
AnyResps(p) ==
    {r \in AllResps : r.kind = "break" => p.stream /\ r.k < Len(ep.deltas)}

Resps(p) == IF ep.kind = "mock" THEN {MockResp(p)} ELSE AnyResps(p)

Yield(l, chunk) == [l EXCEPT !.out = Append(@, chunk)]
YieldAll(l, chunks) == [l EXCEPT !.out = @ \o chunks]
Finish(l) == [l EXCEPT !.pc = "done"]
Fail(l) == [l EXCEPT !.pc = "done", !.failed = TRUE]

\* ---- LLMAPI.chat
\* is_stream_unsupported
IsStreamUnsupported(m) ==
    /\ "stream" \in m
    /\ \/ "unsupported" \in m
       \/ "verified" \in m
       \/ "organization" \in m
       \/ "unsupported_value" \in m

\* the max_tokens test of the fallback and of the non-stream branch
ChatMaxTokensError(l, m) ==
    ~l.mct /\ "max_tokens" \in m /\ "max_completion_tokens" \in m

\* the temperature test of the fallback and of the non-stream branch
ChatTemperatureError(m) ==
    /\ "temperature" \in m
    /\ "only the default" \in m \/ "unsupported value" \in m

\* request_params after the max_tokens error m
ChatSwitchParams(l, m) ==
    [l EXCEPT !.payload.tok = UseCompletionTokens(@),
              !.payload.temp = IF ChatTemperatureError(m) THEN FALSE ELSE @]

\* except Exception as stream_error
ChatStreamError(l, m) ==
    IF IsStreamUnsupported(m)
    THEN [l EXCEPT !.payload.stream = FALSE, !.pc = "fallback"]
    ELSE Finish(Yield(l, ErrorChunk(m)))

\* the first request of the stream branch and what the stream delivers
ChatStream(l, resp) ==
    CASE resp.kind = "ok" ->
             Finish(Yield(YieldAll(l, DeltaChunks(ep.deltas)), DoneChunk))
      [] resp.kind \in {"empty", "no_choices"} -> Finish(Yield(l, DoneChunk))
      [] resp.kind = "break" ->
             ChatStreamError(
                 YieldAll(l, DeltaChunks(SubSeq(ep.deltas, 1, resp.k))),
                 resp.msg)
      [] OTHER -> ChatStreamError(l, resp.msg)

\* the non-stream request after the fallback
ChatFallback(l, resp) ==
    LET content == Flatten(ep.deltas) IN
    CASE resp.kind = "ok" /\ content # << >> ->
             Finish(Yield([l EXCEPT !.fb = TRUE], Chunk(content, TRUE)))
      [] resp.kind \in {"ok", "empty"} ->
             IF l.mct /\ "max_completion_tokens" \in l.payload.tok
             THEN [l EXCEPT !.pc = "length_retry",
                            !.payload.limit = RaisedLimit(@, resp.k > 0)]
             ELSE Finish(Yield(l, NoContentChunk))
      [] resp.kind = "no_choices" -> Finish(Yield(l, NoContentChunk))
      [] OTHER ->
             IF ChatMaxTokensError(l, resp.msg)
             THEN [ChatSwitchParams(l, resp.msg) EXCEPT !.pc = "param_retry",
                                                        !.err = resp.msg]
             ELSE Finish(Yield(l, ErrorChunk(resp.msg)))

\* variant: the token limit is raised until the response has content
ChatLengthRetryAgain(l, resp) ==
    LET content == Flatten(ep.deltas) IN
    IF resp.kind = "ok" /\ content # << >>
    THEN Finish(Yield([l EXCEPT !.fb = TRUE], Chunk(content, TRUE)))
    ELSE [l EXCEPT !.pc = "length_retry"]

\* the request with the token limit raised
ChatLengthRetry(l, resp) ==
    LET content == Flatten(ep.deltas) IN
    IF resp.kind = "ok" /\ content # << >>
    THEN Finish(Yield([l EXCEPT !.fb = TRUE], Chunk(content, TRUE)))
    ELSE Finish(Yield(l, NoContentChunk))

\* the request of the fallback with max_completion_tokens
ChatParamRetry(l, resp) ==
    LET content == Flatten(ep.deltas) IN
    IF resp.kind = "ok" /\ content # << >>
    THEN Finish(Yield([l EXCEPT !.fb = TRUE], Chunk(content, TRUE)))
    ELSE Finish(Yield(l, ErrorChunk(l.err)))

\* the first request of the non-stream branch
ChatNonStream(l, resp) ==
    CASE resp.kind = "ok" -> Finish(Yield(l, Chunk(Flatten(ep.deltas), TRUE)))
      [] resp.kind \in {"empty", "no_choices"} ->
             Finish(Yield(l, Chunk(<< >>, TRUE)))
      [] OTHER ->
             IF ChatMaxTokensError(l, resp.msg)
             THEN [ChatSwitchParams(l, resp.msg) EXCEPT !.pc = "retry"]
             ELSE IF ChatTemperatureError(resp.msg)
                  THEN [l EXCEPT !.payload.temp = FALSE, !.pc = "retry"]
                  ELSE Finish(Yield(l, ErrorChunk(resp.msg)))

\* the retry of the non-stream branch
ChatRetry(l, resp) ==
    CASE resp.kind = "ok" -> Finish(Yield(l, Chunk(Flatten(ep.deltas), TRUE)))
      [] resp.kind \in {"empty", "no_choices"} ->
             Finish(Yield(l, Chunk(<< >>, TRUE)))
      [] OTHER -> Finish(Yield(l, ErrorChunk(resp.msg)))

\* LLMAPI.chat, from one request to the next or to its end
chat(l, resp) ==
    CASE l.pc = "request" ->
             IF l.payload.stream THEN ChatStream(l, resp)
             ELSE ChatNonStream(l, resp)
      [] l.pc = "fallback" -> ChatFallback(l, resp)
      [] l.pc = "length_retry" -> ChatLengthRetry(l, resp)
      [] l.pc = "param_retry" -> ChatParamRetry(l, resp)
      [] OTHER -> ChatRetry(l, resp)

\* ---- LLMService.stream_generate
\* the payload after a status 400 with message m; retry tells whether the
\* request is sent again
ServiceAdjust(p, m) ==
    IF "max_tokens" \in m /\ "max_completion_tokens" \in m
    THEN [retry |-> TRUE, p |-> [p EXCEPT !.tok = UseCompletionTokens(@)]]
    ELSE IF /\ "temperature" \in m
            /\ "unsupported" \in m \/ "only the default" \in m
         THEN [retry |-> TRUE, p |-> [p EXCEPT !.temp = FALSE]]
         ELSE IF /\ "stream" \in m
                 /\ \/ "verified" \in m
                    \/ "organization" \in m
                    \/ "unsupported" \in m
              THEN [retry |-> TRUE, p |-> [p EXCEPT !.stream = FALSE]]
              ELSE IF "max_tokens" \in m \/ "temperature" \in m
                   THEN [retry |-> TRUE,
                         p |-> [p EXCEPT !.temp =
                                   IF "temperature" \in m THEN FALSE ELSE @]]
                   ELSE [retry |-> FALSE, p |-> p]

\* async for line in resp.content: every delta is yielded; a stream that
\* breaks ends the generator (except Exception: return)
ServiceRead(l, resp) ==
    CASE resp.kind = "ok" ->
             Finish(YieldAll(l, DeltaChunks(ep.deltas)))
      [] resp.kind = "break" ->
             Fail(YieldAll(l, DeltaChunks(SubSeq(ep.deltas, 1, resp.k))))
      [] OTHER -> Finish(l)

\* the first request
ServiceRequest(l, resp) ==
    CASE resp.kind = "err" ->
             LET a == ServiceAdjust(l.payload, resp.msg) IN
             IF a.retry THEN [l EXCEPT !.payload = a.p, !.pc = "retry"]
             ELSE Fail(l)
      [] resp.kind = "http" -> Fail(l)
      [] OTHER -> ServiceRead(l, resp)

\* the request sent again.  A streaming response is read after the
\* "async with" of the retry has released it: the read raises (raises), or
\* delivers what the connection still holds
ServiceRetry(l, resp, raises) ==
    LET content == Flatten(ep.deltas) IN
    CASE resp.kind \in {"err", "http"} -> Fail(l)
      [] ~l.payload.stream /\ resp.kind = "ok" /\ content # << >> ->
             Finish(YieldAll([l EXCEPT !.fb = TRUE],
                             DeltaChunks(SimulatedStream(content))))
      [] ~l.payload.stream -> Finish(l)
      [] OTHER -> IF raises THEN Fail(l) ELSE ServiceRead(l, resp)

\* LLMService.stream_generate, from one request to the next or to its end
stream_generate(l, resp, raises) ==
    IF l.pc = "request" THEN ServiceRequest(l, resp)
    ELSE ServiceRetry(l, resp, raises)

\* the call of a client begins: the parameters of the first request
StartCall(client, stream, f) ==
    LET mct == IF client = "chat" THEN ChatUsesCompletionTokens(f)
               ELSE ServiceUsesCompletionTokens(f)
        temp == IF client = "chat" THEN ~ChatDefaultTemperature(f)
                ELSE ~ServiceSkipsTemperature(f)
    IN  [NoLlm EXCEPT !.client = client, !.pc = "request", !.mct = mct,
                      !.payload = [stream |-> stream, tok |-> TokParam(mct),
                                   limit |-> LLM_MAX_TOKENS, temp |-> temp]]

\* a caller calls chat(messages, stream) or stream_generate(prompt)
\* max_tokens: token_limit = max_tokens or self.max_tokens
LlmCall(client, stream, f, max_tokens) ==
    /\ llm.pc = "idle"
    /\ ep.kind # "none"
    /\ client = "service" => stream /\ max_tokens = LLM_MAX_TOKENS
    /\ llm' = [StartCall(client, stream, f) EXCEPT
                  !.payload.limit = max_tokens]
    /\ UNCHANGED <<gatewayVars, ep, agent, sse, prompt>>

\* the client sends a request and handles the response, up to the next
\* request or to the end of the call
LlmRequest(resp, raises) ==
    LET l == [llm EXCEPT !.requests = @ + 1,
                         !.rejected = @ \/ resp.kind = "err",
                         !.neterr = @ \/ resp.kind \in {"http", "break"}]
    IN  /\ llm.pc \notin {"idle", "done"}
        /\ resp \in Resps(llm.payload)
        /\ llm' = IF llm.client = "chat" THEN chat(l, resp)
                  ELSE stream_generate(l, resp, raises)
        /\ UNCHANGED <<gatewayVars, ep, agent, sse, prompt>>

\* the endpoints: mocks that reject a set of parameters, and one that
\* answers as it likes
RejectableParams == {"max_tokens", "temperature", "stream"}
Endpoints ==
    [kind : {"mock"}, rejects : SUBSET RejectableParams, deltas : Streams]
    \cup [kind : {"any"}, rejects : {{}}, deltas : Streams]

InitLlm == timed = FALSE /\ pass = NoPass /\ frame = NoFrame /\ serving = "ws" /\ stats = Untracked
    /\ InitOpen

\* the configuration: which endpoint the clients talk to
ChooseEndpoint(e) ==
    /\ ep = NoEp
    /\ ep' = e
    /\ UNCHANGED <<gatewayVars, llm, agent, sse, prompt>>

NextLlm ==
    \/ \E e \in Endpoints : ChooseEndpoint(e)
    \/ \E client \in {"chat", "service"}, stream \in BOOLEAN, f \in Families :
           \E max_tokens \in Limits : LlmCall(client, stream, f, max_tokens)
    \/ \E resp \in AllResps, raises \in BOOLEAN : LlmRequest(resp, raises)

SpecLlm == InitLlm /\ [][NextLlm]_vars

\* every request is answered
SpecLlmFair ==
    SpecLlm /\ WF_vars(\E resp \in AllResps, raises \in BOOLEAN :
                           LlmRequest(resp, raises))

(***************************************************************************)
(* Properties of the LLM clients.                                          *)
(***************************************************************************)
\* what the caller has been given: the contents of the chunks that are no
\* error chunks, in one piece
Delivered(out) ==
    Flatten([i \in 1..Len(out) |->
                IF out[i].error THEN << >> ELSE out[i].content])
HasErrorChunk(out) == \E i \in 1..Len(out) : out[i].error

\* C17: when a mock endpoint that rejects exactly one of max_tokens, a
\* custom temperature and streaming has rejected a request of a call, the
\* call ends without an error chunk and has delivered the words of the
\* content the endpoint answers with.
ParameterRetryDelivers ==
    (/\ llm.pc = "done"
     /\ ep.kind = "mock"
     /\ Cardinality(ep.rejects) = 1
     /\ ep.deltas # << >>
     /\ llm.rejected)
        => /\ ~HasErrorChunk(llm.out)
           /\ Split(Delivered(llm.out)) = Split(Flatten(ep.deltas))

\* C18, as stated: after a fallback from streaming to a non-stream request
\* that was answered with content, the chunks yielded to the caller, put
\* together, are exactly that content.
FallbackContentExact ==
    (llm.pc = "done" /\ llm.fb) => Delivered(llm.out) = Flatten(ep.deltas)

\* C19: a call of a client sends at most 4 requests to the endpoint, and
\* a call that has begun ends.
ClientCallBounded ==
    /\ [](llm.requests <= 4)
    /\ (llm.pc # "idle") ~> (llm.pc = "done")

\* a call has ended after three requests: the stream refused, the
\* non-stream request answered without content, the token limit raised
ClientCallWitness ==
    /\ llm.pc = "done"
    /\ llm.client = "chat"
    /\ llm.requests = 3

(***************************************************************************)
(* AnswerAgent.generate_answer (agents/answer_agent.py) under its callers: *)
(* the agent WebSocket (ws/ws_agent.py) and POST /api/gpt                  *)
(* (api/gpt_endpoints.py, utils/sse.py).  The session is record 1.         *)
(***************************************************************************)
\* requests received on one agent socket in one behaviour
MaxQuestions == 2

\* the texts of a request: none, blanks only, a question
Questions == {EmptyText, <<" ">>, <<"q">>}

StreamFrame(chunk) == [type |-> "stream", delta |-> chunk, done |-> FALSE]
FinalFrame == [type |-> "final", delta |-> << >>, done |-> TRUE]
ErrorFrame == [type |-> "error", delta |-> << >>, done |-> FALSE]

\* the items on the queue of answer_generator
ChunkItem(chunk) == [type |-> "chunk", item |-> chunk]
DoneItem == [type |-> "done", item |-> << >>]

\* everything of the gateway but the history
HistoryFrame ==
    UNCHANGED <<audio_q, stop, seq, segment_buffer, speech_start,
                last_active, partial_text, connVars, taskVars, pipeVars,
                timed, now, source, sessions, capture, putters, nextFrame,
                shut, vad, close_code, asr, pass, frame, serving, sibling, stats, calls>>

\* the contents of the chunks a generator has yielded
Contents(out) == [i \in 1..Len(out) |-> out[i].content]

\* generate_answer is called: a blank question returns "" at once, another
\* one starts llm_service.stream_generate for the model of family f
BeginAnswer(a, q, f) ==
    LET b == [a EXCEPT !.question = q, !.asked = @ + 1, !.seen = 0,
                       !.full_answer = << >>, !.ret = << >>,
                       !.before = appended[a.state], !.frames = << >>,
                       !.handled = FALSE, !.raised = FALSE]
    IN  IF Strip(q) = EmptyText
        THEN /\ agent' = [b EXCEPT !.pc = "returned", !.called = FALSE]
             /\ UNCHANGED llm
        ELSE /\ agent' = [b EXCEPT !.pc = "generating", !.called = TRUE]
             /\ llm' = StartCall("service", TRUE, f)

\* _sessions.get(session_key_mic) or _sessions.get(session_key_sys)
SessionLookup ==
    LET mic == IF source = "mic" THEN sessions ELSE sibling
        sys == IF source = "mic" THEN sibling ELSE sessions
    IN  IF mic # NoRec THEN mic ELSE sys

\* handle_agent_websocket up to its receive loop; with no record an error
\* frame is sent and the socket is closed (not followed)
AgentConnect ==
    /\ agent.pc = "idle"
    /\ sse.pc = "idle"
    /\ ep.kind # "none"
    /\ SessionLookup # NoRec
    /\ agent' = [agent EXCEPT !.pc = "recv", !.caller = "ws",
                              !.state = SessionLookup]
    /\ UNCHANGED <<gatewayVars, ep, llm, sse, prompt>>

\* {"type": "answer", "text": q} is received
AgentReceiveAnswer(q, f) ==
    /\ agent.pc = "recv"
    /\ agent.open
    /\ agent.asked < MaxQuestions
    /\ IF q = EmptyText
       THEN /\ agent' = [agent EXCEPT !.question = q, !.asked = @ + 1,
                                      !.called = FALSE,
                                      !.frames = <<ErrorFrame>>,
                                      !.handled = TRUE]
            /\ UNCHANGED llm
       ELSE BeginAnswer(agent, q, f)
    /\ UNCHANGED <<gatewayVars, ep, sse, prompt>>

\* variant: the callback is given the delta and nothing is sent
DropStream(frames, chunk) == frames

\* stream_callback of the agent WebSocket
SendStream(frames, chunk) == Append(frames, StreamFrame(chunk))

\* the loop of generate_answer takes the next chunk of the generator and
\* awaits the callback; what the callback raises is logged
AgentChunk ==
    /\ agent.pc = "generating"
    /\ agent.seen < Len(llm.out)
    /\ LET chunk == llm.out[agent.seen + 1].content
           a == [agent EXCEPT !.seen = @ + 1, !.full_answer = @ \o chunk]
       IN  IF agent.caller = "ws"
           THEN /\ agent' = IF agent.open
                            THEN [a EXCEPT !.frames = SendStream(@, chunk)]
                            ELSE [a EXCEPT !.raised = TRUE]
                /\ UNCHANGED sse
           ELSE /\ agent' = a
                /\ sse' = [sse EXCEPT
                              !.queue = Append(@, ChunkItem(chunk)),
                              !.produced = Append(@, chunk)]
    /\ UNCHANGED <<gatewayVars, ep, llm, prompt>>

\* the generator is exhausted: the answer, if any, is appended to the
\* history and returned; generate_task of POST /api/gpt then puts
\* ('done', None)
AgentReturn ==
    /\ agent.pc = "generating"
    /\ llm.pc = "done"
    /\ agent.seen = Len(llm.out)
    /\ agent' = [agent EXCEPT !.pc = "returned", !.ret = agent.full_answer]
    /\ IF agent.full_answer # EmptyText
       THEN /\ chat_history' = [chat_history EXCEPT ![agent.state] =
                   add_to_history(@, agent.full_answer, "assistant")]
            /\ appended' = [appended EXCEPT ![agent.state] =
                   Logged(@, agent.full_answer, "assistant")]
       ELSE UNCHANGED <<chat_history, appended>>
    /\ sse' = IF agent.caller = "sse"
              THEN [sse EXCEPT !.queue = Append(@, DoneItem),
                               !.task = "done"]
              ELSE sse
    /\ HistoryFrame
    /\ UNCHANGED <<ep, llm, prompt>>

\* the final frame after generate_answer has returned; on a socket the
\* client has left the send raises and the handler ends
AgentFinal ==
    /\ agent.pc = "returned"
    /\ agent.caller = "ws"
    /\ agent' = IF agent.open
                THEN [agent EXCEPT !.pc = "recv", !.handled = TRUE,
                                   !.frames = Append(@, FinalFrame)]
                ELSE [agent EXCEPT !.pc = "closed"]
    /\ UNCHANGED <<gatewayVars, ep, llm, sse, prompt>>

\* the client leaves: receive_text raises WebSocketDisconnect
AgentDisconnect ==
    /\ agent.caller = "ws"
    /\ agent.open
    /\ agent' = [agent EXCEPT !.open = FALSE,
                              !.pc = IF @ = "recv" THEN "closed" ELSE @]
    /\ UNCHANGED <<gatewayVars, ep, llm, sse, prompt>>

AgentNext ==
    \/ \E e \in Endpoints : ChooseEndpoint(e)
    \/ AgentConnect
    \/ \E q \in Questions, f \in Families : AgentReceiveAnswer(q, f)
    \/ \E resp \in AllResps, raises \in BOOLEAN : LlmRequest(resp, raises)
    \/ AgentChunk
    \/ AgentReturn
    \/ AgentFinal
    \/ AgentDisconnect

SpecAgent == InitLlm /\ [][AgentNext]_vars

(***************************************************************************)
(* Properties of the answer agent.                                         *)
(***************************************************************************)
\* the chunks stream_generate has yielded for the request in progress
Produced == IF agent.called THEN Contents(llm.out) ELSE << >>
StreamFrames(chunks) == [i \in 1..Len(chunks) |-> StreamFrame(chunks[i])]

\* C20, as stated: when generate_answer has returned after a generation
\* that ended with no output or by a failure of the endpoint, it has
\* returned the text accumulated from the chunks and the history has no
\* entry it did not have when the call began.
NoAppendOnFailure ==
    (/\ agent.pc = "returned"
     /\ \/ Flatten(Produced) = EmptyText
        \/ agent.called /\ llm.failed)
        => /\ agent.ret = Flatten(Produced)
           /\ appended[1] = agent.before

\* C14, as stated: when the handler is done with an answer request on an
\* open socket, the frames sent for it are the stream frames of the chunks
\* in the order the generator yielded them and then one final frame.
AnswerFramesAsStated ==
    (agent.caller = "ws" /\ agent.open /\ agent.handled)
        => agent.frames = StreamFrames(Produced) \o <<FinalFrame>>

\* C14, amended: for an answer request with a text that is not empty, on a
\* socket that stays open, the frames sent so far are stream frames of the
\* first chunks of the generator in their order, and once the handler is
\* done with the request they are the stream frames of all chunks and then
\* one final frame with done = true.
AnswerFramesInOrder ==
    (/\ agent.caller = "ws"
     /\ agent.open
     /\ agent.asked > 0
     /\ agent.question # EmptyText)
        => IF agent.handled
           THEN agent.frames = StreamFrames(Produced) \o <<FinalFrame>>
           ELSE \E k \in 0..Len(Produced) :
                    agent.frames = StreamFrames(SubSeq(Produced, 1, k))

\* a request has been answered with two stream frames and the final frame
AnswerFramesWitness ==
    /\ agent.caller = "ws"
    /\ agent.open
    /\ agent.handled
    /\ Len(agent.frames) = 3
    /\ agent.frames[3] = FinalFrame

(***************************************************************************)
(* POST /api/gpt: answer_generator (api/gpt_endpoints.py) under            *)
(* event_stream (utils/sse.py).                                            *)
(***************************************************************************)
DeltaEvent(chunk) == [event |-> "delta", content |-> chunk]
DoneEvent == [event |-> "done", content |-> << >>]

\* the request: an empty text is refused with status 400; otherwise
\* generate_task is started and the response begins.  For a question of
\* blanks generate_answer returns at once and the task puts the done item.
\* The record is looked up as the agent socket does; with no record a
\* temporary one is made (not followed)
SsePost(q, f) ==
    /\ agent.pc = "idle"
    /\ sse.pc = "idle"
    /\ ep.kind # "none"
    /\ SessionLookup # NoRec
    /\ IF q = EmptyText
       THEN /\ sse' = [sse EXCEPT !.pc = "rejected"]
            /\ UNCHANGED <<agent, llm>>
       ELSE /\ sse' = IF Strip(q) = EmptyText
                      THEN [sse EXCEPT !.pc = "streaming", !.task = "done",
                                       !.queue = <<DoneItem>>]
                      ELSE [sse EXCEPT !.pc = "streaming",
                                       !.task = "running"]
            /\ BeginAnswer([agent EXCEPT !.caller = "sse",
                                         !.state = SessionLookup], q, f)
    /\ UNCHANGED <<gatewayVars, ep, prompt>>

\* after the loop: a task that is not done is cancelled and awaited (its
\* finally puts the done item); the generator ends and event_stream sends
\* the done event
SseEnd(s) ==
    IF s.task = "running"
    THEN /\ sse' = [s EXCEPT !.pc = "done", !.task = "cancelled",
                             !.queue = Append(@, DoneItem),
                             !.events = Append(@, DoneEvent)]
         /\ agent' = [agent EXCEPT !.pc = "cancelled"]
         /\ llm' = [llm EXCEPT !.pc = "done"]
    ELSE /\ sse' = [s EXCEPT !.pc = "done", !.events = Append(@, DoneEvent)]
         /\ UNCHANGED <<agent, llm>>

\* variant: the loop ends with the first item
SseBreaksAlways(item) == TRUE

\* elif item_type == 'done': break
SseBreaks(item) == item.type = "done"

\* the loop of answer_generator takes an item: a chunk is yielded and
\* event_stream sends it as a delta event; the done item ends the loop
SseGet ==
    /\ sse.pc = "streaming"
    /\ sse.queue # << >>
    /\ LET item == Head(sse.queue) IN
       IF SseBreaks(item)
       THEN SseEnd([sse EXCEPT !.queue = Tail(@)])
       ELSE /\ sse' = [sse EXCEPT !.queue = Tail(@),
                                  !.events = Append(@, DeltaEvent(item.item))]
            /\ UNCHANGED <<agent, llm>>
    /\ UNCHANGED <<gatewayVars, ep, prompt>>

\* wait_for(queue.get(), timeout=300.0) runs out on the empty queue: the
\* loop ends
SseTimeout ==
    /\ sse.pc = "streaming"
    /\ sse.queue = << >>
    /\ SseEnd(sse)
    /\ UNCHANGED <<gatewayVars, ep, prompt>>

SseNext ==
    \/ \E e \in Endpoints : ChooseEndpoint(e)
    \/ \E q \in Questions, f \in Families : SsePost(q, f)
    \/ \E resp \in AllResps, raises \in BOOLEAN : LlmRequest(resp, raises)
    \/ AgentChunk
    \/ AgentReturn
    \/ SseGet
    \/ SseTimeout

SpecSse == InitLlm /\ [][SseNext]_vars

DeltaEvents(chunks) == [i \in 1..Len(chunks) |-> DeltaEvent(chunks[i])]

\* C15: while the response of POST /api/gpt is open, the events sent are
\* delta events of the first chunks the agent has produced, in their
\* order; when it has ended, they are the delta events of all chunks the
\* agent has produced and then one done event; and a generation that was
\* not cut by the timeout has produced every chunk of the LLM client.
SseDeliversAll ==
    /\ sse.pc = "streaming"
           => \E k \in 0..Len(sse.produced) :
                  sse.events = DeltaEvents(SubSeq(sse.produced, 1, k))
    /\ sse.pc = "done"
           => /\ sse.events = DeltaEvents(sse.produced) \o <<DoneEvent>>
              /\ sse.task = "done" => sse.produced = Produced

\* the response has ended with two delta events and the done event after
\* the LLM client fell back to a non-stream request
SseDeliversWitness ==
    /\ sse.pc = "done"
    /\ sse.task = "done"
    /\ llm.fb
    /\ Len(sse.events) = 3

(***************************************************************************)
(* The prompt builders: AnswerAgent._build_prompt (agents/answer_agent.py) *)
(* and the prompt assembly of ask_gpt (api_routes.py).  A prompt is its    *)
(* sequence of lines, a line a sequence of characters; the headings and    *)
(* the instructions are one character each.                                *)
(***************************************************************************)
\* get_history_with_embeddings(limit=10)
HISTORY_LIMIT == 10
\* full_history[-10:]
RECENT_ITEMS == 10
\* recent_dialogue[-8:], max_items=8
DIALOGUE_ITEMS == 8
\* _sanitize_content(cv_info['content'], max_length=2000)
CV_MAX_LENGTH == 2000
\* _sanitize_content(normalized_content, max_length=200)
DIALOGUE_MAX_LENGTH == 200

\* seq[-n:]
LastN(xs, n) ==
    IF Len(xs) > n THEN SubSeq(xs, Len(xs) - n + 1, Len(xs)) ELSE xs

\* the character of code marks
Backtick == "<backtick>"
NotBacktick(ch) == ch # Backtick

\* _sanitize_content; max_length 0 stands for None
SanitizeContent(content, max_length) ==
    LET flat == [i \in 1..Len(content) |->
                    IF content[i] \in {"\n", "\r"} THEN " " ELSE content[i]]
        plain == SelectSeq(flat, NotBacktick)
        cut == IF max_length > 0 /\ Len(plain) > max_length
               THEN SubSeq(plain, 1, max_length) \o <<"...">>
               ELSE plain
    IN  Strip(cut)

\* speaker_name = "面试官" if speaker == "interviewer" else "我"
SpeakerName(speaker) ==
    IF speaker = "interviewer" THEN "interviewer:" ELSE "me:"

BlankLine == << >>
\* "（无）"
NoneLine == <<"(none)">>
OrNone(lines) == IF lines = << >> THEN <<NoneLine>> ELSE lines

\* ---- AnswerAgent._build_prompt
\* dialogue_lines of the agent: one line per entry that has content
RECURSIVE AgentDialogueLines(_)
AgentDialogueLines(h) ==
    IF h = << >> THEN << >>
    ELSE LET item == Head(h) IN
         (IF item.content # EmptyText
          THEN << <<SpeakerName(item.speaker)>> \o item.content >>
          ELSE << >>) \o AgentDialogueLines(Tail(h))

AgentInstruction(mode) ==
    IF mode = "brief" THEN <<"#one sentence">> ELSE <<"#6-12 sentences">>

\* the template of both modes; the bundle has no external chunks
build_prompt(question, cv_chunks, jd_chunks, history, mode) ==
    << <<"#header">>, <<"[current question]">>, question, <<"[cv]">> >>
    \o OrNone(cv_chunks)
    \o << <<"[jd]">> >> \o OrNone(jd_chunks)
    \o << <<"[external]">>, NoneLine, <<"[recent dialogue]">> >>
    \o OrNone(AgentDialogueLines(LastN(history, HISTORY_LIMIT)))
    \o << AgentInstruction(mode) >>

\* ---- ask_gpt
\* recent_dialogue: the last entries of the history that have content
RECURSIVE RecentDialogue(_)
RecentDialogue(h) ==
    IF h = << >> THEN << >>
    ELSE LET item == Head(h) IN
         (IF Strip(item.content) # EmptyText
          THEN << [content |-> Strip(item.content),
                   speaker |-> item.speaker] >>
          ELSE << >>) \o RecentDialogue(Tail(h))

\* items_to_add of add_dialogue_block; used is used_dialogue_content
RECURSIVE ItemsToAdd(_, _)
ItemsToAdd(list, used) ==
    IF list = << >> THEN << >>
    ELSE LET content == Strip(Head(list).content) IN
         IF content = EmptyText \/ content \in used
         THEN ItemsToAdd(Tail(list), used)
         ELSE << <<SpeakerName(Head(list).speaker)>>
                    \o SanitizeContent(content, DIALOGUE_MAX_LENGTH) >>
              \o ItemsToAdd(Tail(list), used \cup {content})

\* the lines add_dialogue_block adds below its title
DialogueBlock(list, max_items) == LastN(ItemsToAdd(list, {}), max_items)

AskGptInstruction(brief) ==
    IF brief THEN <<"#one sentence">> ELSE <<"#detailed">>

\* enhanced_prompt_parts, with no selected messages; job tells whether a
\* job position was found, title is its title
AskGptPrompt(user_prompt, cv, job, title, recent_dialogue, brief) ==
    LET cv_content == SanitizeContent(cv, CV_MAX_LENGTH)
        t == SanitizeContent(title, 0)
        block == DialogueBlock(LastN(recent_dialogue, DIALOGUE_ITEMS),
                               DIALOGUE_ITEMS)
    IN  << <<"#header">>, BlankLine >>
        \o (IF cv_content # EmptyText
            THEN << <<"[cv summary]">>, cv_content, BlankLine >> ELSE << >>)
        \o (IF job
            THEN << <<"[jd]">> >>
                 \o (IF t # EmptyText THEN << <<"title:">> \o t >> ELSE << >>)
                 \o << BlankLine >>
            ELSE << >>)
        \o (IF block # << >>
            THEN << <<"[dialogue context]">> >> \o block \o << BlankLine >>
            ELSE << >>)
        \o << <<"[question]">>, SanitizeContent(user_prompt, 0), BlankLine,
              AskGptInstruction(brief) >>

\* ---- the inputs
PromptQuestions == {<<"Q">>}
PromptCvs == {EmptyText, <<"X">>, <<Backtick, "X", "\n">>}
PromptJds == {EmptyText, <<"Y">>}
DialogueContents == {<<"q1">>, <<"a1">>}
DialogueSpeakers == {"interviewer", "user"}

\* generate_answer builds the prompt from the bundle of the RAG query (one
\* chunk for a text that is not empty) and the history of the session
BuildAgentPrompt(question, cv, jd, mode) ==
    /\ prompt.pc = "idle"
    /\ sessions = 1
    /\ LET chunks(text) == IF text = EmptyText THEN << >> ELSE <<text>>
           h == chat_history[1]
       IN  prompt' = [pc |-> "built", builder |-> "agent",
                      question |-> question, cv |-> cv, jd |-> jd,
                      history |-> h,
                      lines |-> build_prompt(question, chunks(cv),
                                             chunks(jd), h, mode),
                      block |-> AgentDialogueLines(LastN(h, HISTORY_LIMIT))]
    /\ UNCHANGED <<gatewayVars, ep, llm, agent, sse>>

\* ask_gpt assembles the prompt; use_rag tells whether the history of the
\* session is read
BuildAskGptPrompt(question, cv, job, title, use_rag, brief) ==
    /\ prompt.pc = "idle"
    /\ sessions = 1
    /\ LET h == chat_history[1]
           recent == IF use_rag THEN RecentDialogue(LastN(h, RECENT_ITEMS))
                     ELSE << >>
       IN  prompt' = [pc |-> "built", builder |-> "ask_gpt",
                      question |-> question, cv |-> cv,
                      jd |-> IF job THEN title ELSE EmptyText,
                      history |-> IF use_rag THEN h ELSE << >>,
                      lines |-> AskGptPrompt(question, cv, job, title,
                                             recent, brief),
                      block |-> DialogueBlock(LastN(recent, DIALOGUE_ITEMS),
                                              DIALOGUE_ITEMS)]
    /\ UNCHANGED <<gatewayVars, ep, llm, agent, sse>>

PromptNext ==
    \/ \E content \in DialogueContents, speaker \in DialogueSpeakers :
           AddToHistory(1, content, speaker)
    \/ \E question \in PromptQuestions, cv \in PromptCvs, jd \in PromptJds,
          mode \in {"brief", "full"} :
           BuildAgentPrompt(question, cv, jd, mode)
    \/ \E question \in PromptQuestions, cv \in PromptCvs,
          title \in PromptJds, job \in BOOLEAN, use_rag \in BOOLEAN,
          brief \in BOOLEAN :
           BuildAskGptPrompt(question, cv, job, title, use_rag, brief)

SpecPrompt == InitLlm /\ [][PromptNext]_vars

(***************************************************************************)
(* Properties of the prompt builders.                                      *)
(***************************************************************************)
\* the texts occur in the lines in their order, each in a later line
RECURSIVE InOrder(_, _)
InOrder(lines, texts) ==
    IF texts = << >> THEN TRUE
    ELSE IF lines = << >> THEN FALSE
         ELSE IF Contains(Head(texts), Head(lines))
              THEN InOrder(Tail(lines), Tail(texts))
              ELSE InOrder(Tail(lines), texts)

NoDuplicates(xs) ==
    \A i, j \in 1..Len(xs) : xs[i] = xs[j] => i = j

\* the case of the claim: CV "X", JD "Y", the history (interviewer, q1),
\* (candidate, a1)
GivenCase ==
    /\ prompt.pc = "built"
    /\ prompt.cv = <<"X">>
    /\ prompt.jd = <<"Y">>
    /\ prompt.history = << [content |-> <<"q1">>, speaker |-> "interviewer"],
                           [content |-> <<"a1">>, speaker |-> "user"] >>

\* C16, as stated: in the given case the prompt contains X, Y, q1, a1 and
\* the question in this order, and the dialogue block of a prompt built
\* from a history without equal entries has no line twice.
PromptInOrder ==
    /\ GivenCase => InOrder(prompt.lines, <<prompt.cv, prompt.jd, <<"q1">>,
                                            <<"a1">>, prompt.question>>)
    /\ (prompt.pc = "built" /\ NoDuplicates(prompt.history))
           => NoDuplicates(prompt.block)

(***************************************************************************)
(* Further properties of the answer agent.                                 *)
(***************************************************************************)
\* C21, as stated: once the callback has raised on the closed socket of
\* the caller, generate_answer takes no further chunk of the generator and
\* the history of the session gets no new entry.
CallbackFailureAborts ==
    [][agent.raised => /\ agent'.seen = agent.seen
                       /\ appended'[1] = appended[1]]_vars

(***************************************************************************)
(* Further properties of the LLM clients.                                  *)
(***************************************************************************)
\* C22, as stated: a call of a client that met a network error (a request
\* that failed without a rejection by the endpoint, or a stream that
\* broke) has sent the request again before it ended.
NetworkErrorRetried ==
    (llm.pc = "done" /\ llm.neterr /\ ~llm.rejected) => llm.requests >= 2

(***************************************************************************)
(* Properties of connections that share a session record.                  *)
(***************************************************************************)
\* the consumer tasks that run on record r: started, not ended
Consumers(r) ==
    {c \in Conns : state[c] = r /\ cpc[c] \notin {"none", "start", "done"}}

\* C23, as stated: at any time at most one consumer task runs on a
\* session record (takes frames from its audio_q and writes its segment
\* fields).
SoleConsumer ==
    \A r \in Conns : Cardinality(Consumers(r)) <= 1

\* C25, as stated: a connection in its receive loop has its record
\* registered, with stop = false.
LiveConnectionRegistered ==
    \A c \in Conns :
        hpc[c] = "recv" => /\ state[c] # NoRec
                           /\ sessions = state[c]
                           /\ ~stop[state[c]]

(***************************************************************************)
(* The recogniser under timeouts: one connection streams frames in real    *)
(* time as in the segmenter; a recognition returns one of two texts, at    *)
(* once or a frame later, or runs into the timeout of its wait_for.        *)
(***************************************************************************)
\* number of frames streamed in one behaviour under timeouts
MaxAsrFrames == 9

AsrTexts == {<<"a">>, <<"b">>}
AsrLats == {0, FrameDur}
Tags == {"cur", "old"}

\* a recognize call abandoned on the worker pool returns: it has left the
\* decoder state of its segment in the dict it was given
WorkerDone(r, tag) ==
    /\ asr[r].stale[tag] > 0
    /\ asr' = [asr EXCEPT ![r].stale[tag] = @ - 1,
                          ![r].cache = @ \cup {tag}]
    /\ UNCHANGED <<recVars, connVars, taskVars, pipeVars, timed, now, source,
                   sessions, capture, putters, nextFrame, shut, vad, appended,
                   close_code, pass, frame, serving, sibling, stats,
                   calls, answerVars>>

NextAsr ==
    \/ \E he \in BOOLEAN : VadFrame(he, MaxAsrFrames)
    \/ \E res \in AsrTexts, lat \in AsrLats : PartialRecogDone(1, res, lat)
    \/ PartialRecogDone(1, RecogTimeout,
                        partial_timeout(Duration(segment_buffer[1])))
    \/ PartialSendDone(1)
    \/ \E res \in AsrTexts, lat \in AsrLats :
           FinalRecogDone(1, res, FALSE, lat, FALSE, FALSE)
    \/ FinalRecogDone(1, RecogTimeout, FALSE,
                      final_timeout(Duration(speech_buffer[1]
                                             \o segment_buffer[1])),
                      FALSE, FALSE)
    \/ FinalSendDone(1, FALSE)
    \/ \E tag \in Tags : WorkerDone(1, tag)

SpecAsr == InitVad /\ [][NextAsr]_vars

\* the recognize calls running with the dict bound to asr_cache of record r:
\* those a consumer awaits and those abandoned
Executing(r) ==
    Cardinality({c \in Conns : /\ state[c] = r
                               /\ cpc[c] \in {"partial_recog", "final_recog"}})
    + asr[r].stale.cur + asr[r].stale.old

\* C24: at any time at most one recognize call is executing against the
\* asr_cache of a session; a recognition that has timed out is not running
\* any more when the next one of the session starts
OneRecognitionPerCache ==
    \A r \in Conns : Executing(r) <= 1

\* C26: when the final recognition of a closing segment times out, no event
\* is sent and no history entry is written, the recognition is not started
\* again, and a consumer that goes on is in IDLE with empty segment and
\* pre-roll buffers
FinalTimeoutDropsSegment ==
    [][\A c \in Conns :
          (/\ cpc[c] = "final_recog"
           /\ state[c] # NoRec
           /\ asr'[state[c]].outcome = "timeout")
          => /\ wire' = wire /\ wireTick' = wireTick
             /\ chat_history' = chat_history /\ appended' = appended
             /\ cpc'[c] # "final_recog"
             /\ cpc'[c] # "done" => /\ ~in_speech'[c]
                                    /\ segment_buffer'[state[c]] = << >>
                                    /\ speech_buffer'[c] = << >>]_vars

\* a final recognition has timed out and the consumer waits for the next frame
FinalTimeoutWitness ==
    /\ asr[1].outcome = "timeout"
    /\ cpc[1] = "get"
    /\ ~in_speech[1]
    /\ segment_buffer[1] = << >>

\* C27: when a segment begins (IDLE to ACTIVE) the asr_cache of the session
\* holds no decoder state left by an earlier segment, so that the first
\* partial recognition of the segment runs on a fresh cache
FreshCacheAtOnset ==
    [][\A c \in Conns :
          (state[c] # NoRec /\ ~in_speech[c] /\ in_speech'[c])
          => asr'[state[c]].cache = {}]_vars

\* C28: within a session at most one partial event is emitted in any window
\* of length PARTIAL_INTERVAL, measured on the timestamps of the partials:
\* a partial that follows a partial is stamped at least PARTIAL_INTERVAL later
PartialsSpaced ==
    [][\A c \in Conns :
          (/\ wire[c].type = "partial"
           /\ wire'[c].type = "partial"
           /\ wireTick'[c] # wireTick[c])
          => wire'[c].timestamp - wire[c].timestamp >= PARTIAL_INTERVAL]_vars

(***************************************************************************)
(* The segmenter on chunks of any length: the client of connection 1       *)
(* chooses the length of every binary frame; the clock is left open.       *)
(***************************************************************************)
\* number of chunks sent in one behaviour
MaxChunks == 5

\* chunk lengths, in ticks
ChunkLens == {1, 2, FrameDur}

InitChunks == timed = FALSE /\ pass = NoPass /\ frame = NoFrame /\ serving = "ws" /\ stats = Untracked
    /\ InitOpen

\* a chunk of duration d arrives and the consumer, waiting on the empty
\* queue, takes it: wait_for(audio_q.get()), process_audio_chunk
ChunkFrame(d, has_energy, oMax, oSil, oPart, maxFrames) ==
    /\ ~timed
    /\ Runs(1, "get")
    /\ audio_q[1] = << >>
    /\ nextFrame <= maxFrames
    /\ nextFrame' = nextFrame + 1
    /\ UNCHANGED now
    /\ process_audio_chunk(1, << >>, now, d, has_energy, oMax, oSil, oPart)
    /\ UNCHANGED <<stop, hpc, state, system_audio_enabled, cancelReq,
                   timed, source, sessions, capture, putters, shut, vad,
                   appended, close_code, pass, frame, serving, sibling, stats,
                   calls, answerVars>>
    /\ Recognitions(1, "none")

NextChunks ==
    \/ \E d \in ChunkLens, he, oMax, oSil, oPart \in BOOLEAN :
           ChunkFrame(d, he, oMax, oSil, oPart, MaxChunks)
    \/ \E res \in GwResults : PartialRecogDone(1, res, 0)
    \/ PartialSendDone(1)
    \/ \E res \in GwResults, oWin, oPart \in BOOLEAN :
           FinalRecogDone(1, res, FALSE, 0, oWin, oPart)
    \/ \E oPart \in BOOLEAN : FinalSendDone(1, oPart)

SpecChunks == InitChunks /\ [][NextChunks]_vars

\* C29: after any unvoiced frame processed in IDLE the frames kept as
\* pre-roll last at most VAD_PRE_SPEECH_PADDING in total, whatever the
\* lengths of the frames
PreRollBounded ==
    \A c \in Conns :
        (state[c] # NoRec /\ ~in_speech[c])
        => Duration(segment_buffer[state[c]]) <= VAD_PRE_SPEECH_PADDING

(***************************************************************************)
(* The proactive drop pass on its own: a queue of any capacity up to       *)
(* MaxCapacity at any occupancy, read by the consumer at the top of its    *)
(* loop.  The pass has no await: it is one step.                           *)
(***************************************************************************)
\* largest WS_AUDIO_QUEUE_MAX_SIZE of the drop pass on its own
MaxCapacity == 12

Passes ==
    {[pc |-> "observed", capacity |-> cap, observed |-> n, queue_size |-> n,
      drops |-> 0] : cap \in 1..MaxCapacity, n \in 0..MaxCapacity}

InitDrop ==
    /\ timed = FALSE
    /\ pass \in {p \in Passes : p.observed <= p.capacity}
    /\ frame = NoFrame
    /\ serving = "ws" /\ stats = Untracked
    /\ InitOpen

\* queue_size = qsize(); if over 80%: the drop loop
DropPass ==
    LET drops == IF OverHighWater(pass.queue_size, pass.capacity)
                 THEN DropWhile(pass.queue_size, 0, pass.capacity)
                 ELSE 0
    IN  /\ pass.pc = "observed"
        /\ pass' = [pass EXCEPT !.pc = "done", !.drops = drops,
                                !.queue_size = @ - drops]
        /\ UNCHANGED <<recVars, connVars, taskVars, pipeVars, timed, now,
                       source, sessions, capture, putters, nextFrame, shut,
                       vad, appended, close_code, asr, frame, serving, sibling, stats,
                       calls, answerVars>>

SpecDrop == InitDrop /\ [][DropPass]_vars

\* C30: whenever the consumer has read an occupancy above 80% of the
\* capacity, the queue holds at most 50% of the capacity when the drop pass
\* ends, for every capacity and occupancy
DropPassReachesHalf ==
    (pass.pc = "done" /\ 10 * pass.observed > 8 * pass.capacity)
    => 2 * pass.queue_size <= pass.capacity

\* C31: a text frame that is not valid JSON, or that is JSON but no control
\* message the handler knows (any JSON value), is dropped without effect: no
\* handler leaves its receive loop on such a frame
TextFrameDropped ==
    \A c \in Conns : ~shut[c].text

(***************************************************************************)
(* The binary frames on their own: a frame of PCM bytes, with or without   *)
(* the metadata header in front.                                           *)
(***************************************************************************)
\* largest number of PCM bytes in a frame
MaxPcmBytes == 50

\* the header: 25 bytes of fields, padded to 32
HEADER_FIELDS == 25
HEADER_SIZE == 32

Repeat(x, n) == [i \in 1..n |-> x]

\* b[k:]
From(b, k) == SubSeq(b, k + 1, Len(b))

\* audio_data of a binary frame b.  struct.unpack('<I d I B I f', b[:25])
\* takes any 25 bytes, so the branch of struct.error is never taken
AudioData(b) ==
    LET data == IF Len(b) >= HEADER_FIELDS
                THEN IF Len(b) >= HEADER_SIZE THEN From(b, HEADER_SIZE)
                     ELSE From(b, HEADER_FIELDS)
                ELSE b
    IN  IF Len(data) % 2 # 0 THEN SubSeq(data, 1, Len(data) - 1) ELSE data

Frames ==
    {[pc |-> "received", header |-> h,
      bytes |-> (IF h THEN Repeat("h", HEADER_SIZE) ELSE << >>)
                \o Repeat("p", n),
      audio |-> << >>] : h \in BOOLEAN, n \in 0..MaxPcmBytes}

InitFrame ==
    /\ timed = FALSE
    /\ pass = NoPass
    /\ frame \in Frames
    /\ serving = "ws" /\ stats = Untracked
    /\ InitOpen

\* "bytes" in msg: the audio of the frame, up to the enqueue
RecvBinary ==
    /\ frame.pc = "received"
    /\ frame' = [frame EXCEPT !.pc = "done", !.audio = AudioData(frame.bytes)]
    /\ UNCHANGED <<recVars, connVars, taskVars, pipeVars, timed, now, source,
                   sessions, capture, putters, nextFrame, shut, vad, appended,
                   close_code, asr, pass, serving, sibling, stats,
                   calls, answerVars>>

SpecFrame == InitFrame /\ [][RecvBinary]_vars

\* the PCM bytes of a frame, less an odd trailing byte
Pcm(b) ==
    LET data == SelectSeq(b, LAMBDA x : x = "p")
    IN  SubSeq(data, 1, 2 * (Len(data) \div 2))

\* C32: a binary frame that does not begin with the metadata header is
\* enqueued in full, less an odd trailing byte; only a frame that carries
\* the header has its first 32 bytes removed
HeaderlessFrameKept ==
    frame.pc = "done" => frame.audio = Pcm(frame.bytes)

(***************************************************************************)
(* The audio endpoint as main.py wires it: handle_audio_websocket of       *)
(* gateway.ws_audio serves /ws/audio/{session_id}/{source}.                *)
(***************************************************************************)
InitGateway == timed = FALSE /\ serving = "gateway" /\ stats = Untracked
    /\ InitCommon

SpecGateway == InitGateway /\ [][Next]_vars

\* C33: every final event sent on an audio socket follows an entry of the
\* same text and speaker appended to the in-memory history of its session:
\* at the send the history ends with that entry
FinalAfterHistory ==
    [][\A c \in Conns :
         (wireTick'[c] # wireTick[c] /\ wire'[c].type = "final")
         => LET h == chat_history'[state[c]]
            IN  /\ h # << >>
                /\ h[Len(h)].content = Strip(wire'[c].text)
                /\ h[Len(h)].speaker = wire'[c].speaker]_vars


(***************************************************************************)
(* Two audio sockets of one session_id, one on each source, and an agent   *)
(* endpoint.  The socket of connection 1 is open on source; the socket on  *)
(* the other source (connection 2, record 2) comes and goes.  The          *)
(* pipelines are not followed: a final is an input.                        *)
(***************************************************************************)
MaxPairFinals == 2

OtherSource(src) == IF src = "mic" THEN "sys" ELSE "mic"

PairFrame ==
    UNCHANGED <<audio_q, stop, segment_buffer, speech_start, last_active,
                partial_text, hpc, state, system_audio_enabled, taskVars,
                pipeVars, timed, now, source, sessions, capture, putters,
                nextFrame, shut, vad, close_code, asr, pass, frame, serving,
                stats, calls, answerVars>>

\* the socket on the other source is accepted: its key is not in _sessions
\* and a record is created
SiblingConnect ==
    /\ sibling = NoRec
    /\ sibling' = 2
    /\ seq' = [seq EXCEPT ![2] = 0]
    /\ chat_history' = [chat_history EXCEPT ![2] = << >>]
    /\ appended' = [appended EXCEPT ![2] = << >>]
    /\ UNCHANGED <<wire, wireTick>>
    /\ PairFrame

\* the finally clause of that socket: del _sessions[session_key]
SiblingClose ==
    /\ sibling = 2
    /\ sibling' = NoRec
    /\ UNCHANGED <<seq, chat_history, appended, wire, wireTick>>
    /\ PairFrame

\* on_final of the socket that has made record r
SocketFinal(r, text) ==
    LET speaker == Speaker(IF r = 1 THEN source ELSE OtherSource(source))
    IN  /\ r = sessions \/ r = sibling
        /\ seq[r] < MaxPairFinals
        /\ chat_history' = [chat_history EXCEPT ![r] =
                               add_to_history(@, text, speaker)]
        /\ appended' = [appended EXCEPT ![r] = Logged(@, text, speaker)]
        /\ seq' = [seq EXCEPT ![r] = next_seq(@)]
        /\ Send(r, FinalMsg(next_seq(seq[r]), speaker, text, 0, 0, now))
        /\ UNCHANGED sibling
        /\ PairFrame

PairEndpoints == {e \in Endpoints : e.kind = "mock" /\ e.rejects = {}}

InitPair ==
    /\ timed = FALSE /\ pass = NoPass /\ frame = NoFrame /\ serving = "ws" /\ stats = Untracked
    /\ source \in {"mic", "sys"}
    /\ InitRecords

NextPair ==
    \/ \E e \in PairEndpoints : ChooseEndpoint(e)
    \/ AgentConnect
    \/ \E q \in Questions : AgentReceiveAnswer(q, "gpt-4o")
    \/ \E resp \in AllResps, raises \in BOOLEAN : LlmRequest(resp, raises)
    \/ AgentChunk
    \/ AgentReturn
    \/ AgentFinal
    \/ AgentDisconnect
    \/ SiblingConnect
    \/ SiblingClose
    \/ \E r \in Conns : SocketFinal(r, <<"a">>)

SpecPair == InitPair /\ [][NextPair]_vars

\* the finals in the history of record r
FinalsOf(r) ==
    {e \in {chat_history[r][i] : i \in DOMAIN chat_history[r]} :
        e.speaker # "assistant"}

\* C34: an agent request for a session_id reads a dialogue history that
\* holds the finals of both of its audio sockets whenever both are
\* connected: when generate_answer begins, every final in the history of
\* either socket's record is in the history of the record the agent holds
AgentReadsBothSockets ==
    [][(/\ agent'.asked = agent.asked + 1
        /\ agent'.pc = "generating"
        /\ sessions # NoRec /\ sibling # NoRec)
       => LET h == chat_history[agent'.state]
          IN  \A r \in {sessions, sibling} :
                  \A e \in FinalsOf(r) :
                      \E i \in DOMAIN h : h[i] = e]_vars


\* C35: if the producer fails during an answer request, the endpoint ends
\* the request with an error event in place of the normal completion: the
\* agent socket sends an error frame and no final frame, the SSE response
\* ends with an error event
ProducerFailureReported ==
    /\ (agent.caller = "ws" /\ agent.called /\ agent.handled /\ llm.failed)
       => /\ agent.frames # << >>
          /\ agent.frames[Len(agent.frames)] = ErrorFrame
    /\ (agent.caller = "sse" /\ agent.called /\ sse.pc = "done" /\ llm.failed)
       => /\ sse.events # << >>
          /\ sse.events[Len(sse.events)].event = "error"


(***************************************************************************)
(* One connection with the counters of SessionState.stats followed.        *)
(***************************************************************************)
InitStats ==
    /\ timed = FALSE /\ serving = "ws"
    /\ stats = [r \in Conns |-> NewStats]
    /\ InitCommon

SpecStats == InitStats /\ [][Next]_vars

\* the counters the pipeline keeps of what it has processed
ProcessingKeys == {"audio_chunks_received", "segments_processed",
                   "transcripts_generated", "total_duration_ms"}

\* the frames of record r a step drops: the one the receiver evicts from a
\* full queue, and the ones the consumer removes beyond the chunk it takes
DroppedInStep(c) ==
    LET r == state[c]
        q == audio_q[r]
    IN  IF r = NoRec \/ state'[c] # r \/ hpc'[c] # hpc[c] THEN 0
        ELSE IF q = << >> THEN 0
        ELSE IF nextFrame' # nextFrame
        THEN IF \E i \in DOMAIN audio_q'[r] : audio_q'[r][i] = Head(q)
             THEN 0 ELSE 1
        ELSE IF Len(audio_q'[r]) >= Len(q) THEN 0
        ELSE Len(q) - Len(audio_q'[r])
             - (IF cpc[c] = "get" /\ ~cancelReq[c] THEN 1 ELSE 0)

\* C36: every audio frame dropped for backpressure, by the receiver's
\* drop-oldest or by the consumer's drop pass, increments a drop counter in
\* the stats of the session, and the drop sends the client nothing
DropsCounted ==
    [][\A c \in Conns :
         (state[c] # NoRec /\ DroppedInStep(c) > 0)
         => /\ \E k \in DOMAIN stats[state[c]] \ ProcessingKeys :
                   stats'[state[c]][k] >= stats[state[c]][k] + DroppedInStep(c)
            /\ wire'[c] = wire[c] /\ wireTick'[c] = wireTick[c]]_vars


\* C37: every request the LLM client sends, the first one and every retry,
\* carries exactly one of max_tokens and max_completion_tokens
OneTokenParameter ==
    [][llm'.requests = llm.requests + 1
       => Cardinality(llm.payload.tok) = 1]_vars

\* a call whose request was rejected for max_tokens has sent its retry
OneTokenParameterWitness ==
    /\ llm.pc = "done"
    /\ llm.requests >= 2
    /\ llm.rejected
    /\ ~llm.mct
    /\ llm.payload.tok = {"max_completion_tokens"}

\* C38: when the response of the fallback is empty for its length, the retry
\* carries a token limit strictly greater than the limit of the request
\* that was truncated, whatever limit the call began with
LengthRetryRaisesLimit ==
    [][(llm.pc = "fallback" /\ llm'.pc = "length_retry")
       => llm'.payload.limit > llm.payload.limit]_vars


(***************************************************************************)
(* The entry points into the chat-completion endpoint, called by tasks     *)
(* that run at the same time: "suggest", suggest_answer of the interview   *)
(* agent (POST /api/agent/suggest); "answer", generate_answer of the       *)
(* answer agent (the agent socket and POST /api/gpt of gpt_endpoints);     *)
(* "gpt", llm_api.chat and llm_api.generate as the routes call them.       *)
(***************************************************************************)
Entries == {"suggest", "answer", "gpt"}

CallFrame ==
    UNCHANGED <<recVars, connVars, taskVars, pipeVars, timed, now, source,
                sessions, capture, putters, nextFrame, shut, vad, appended,
                close_code, asr, pass, frame, serving, sibling, stats,
                answerVars>>

\* a task enters entry point e.  suggest_answer comes to
\* "async with self._llm_semaphore"; the other entry points send their
\* request at once
CallBegin(t, e) ==
    /\ calls.of[t].pc = "idle"
    /\ calls' = [calls EXCEPT !.of[t] =
                    [entry |-> e,
                     pc |-> IF e = "suggest" THEN "acquire" ELSE "request"]]
    /\ CallFrame

\* the semaphore is acquired: chain.ainvoke(inputs) sends its request
SemAcquire(t) ==
    /\ calls.of[t].pc = "acquire"
    /\ calls.sem > 0
    /\ calls' = [calls EXCEPT !.sem = @ - 1, !.of[t].pc = "request"]
    /\ CallFrame

\* the request of t ends; suggest_answer leaves the "async with"
CallEnd(t) ==
    /\ calls.of[t].pc = "request"
    /\ calls' = [calls EXCEPT
                    !.sem = IF calls.of[t].entry = "suggest" THEN @ + 1 ELSE @,
                    !.of[t] = [entry |-> "none", pc |-> "idle"]]
    /\ CallFrame

NextCalls ==
    \/ \E t \in Callers, e \in Entries : CallBegin(t, e)
    \/ \E t \in Callers : SemAcquire(t)
    \/ \E t \in Callers : CallEnd(t)

SpecCalls == InitLlm /\ [][NextCalls]_vars

\* the requests in flight
InFlight == {t \in Callers : calls.of[t].pc = "request"}

\* C39: the requests in flight to the chat-completion endpoint, over all
\* sessions and entry points, never exceed the configured limit
InFlightBounded == Cardinality(InFlight) <= LLM_CONCURRENCY_LIMIT


====
